---------------------------- MODULE Spec2Model ----------------------------
(***************************************************************************)
(* Particle-field simulation engine of srinath-portfolio: the scenes       *)
(* ConstellationNetwork, GravitationalOrbits, FlowField and SkyAndSea.     *)
(*                                                                         *)
(* Numbers are fixed point.  Positions and distances: 1.0 = 10000.         *)
(* Velocities and accelerations: 1.0 per 60 Hz tick = 1000000, so that the *)
(* configured drift speed 0.0001 is 100 and mouseStrength 0.00012 is 120.  *)
(* Alpha values: 1.0 = 1000.  Time is in milliseconds (the code divides    *)
(* performance.now() by 1000; the 0.05 s cap is 50).  Products and         *)
(* quotients truncate toward zero.                                         *)
(***************************************************************************)
EXTENDS Integers, Sequences, FiniteSets, TLC

VARIABLES
    scene,          \* which component is mounted
    isMobile,       \* window.innerWidth < 768 at mount
    now,            \* performance.now() in ms, as last read
    lastTime,       \* lastTime of the animation closure
    dt,             \* dt of the latest frame (ms, after the clamp)
    frames,         \* number of frame callbacks run
    mouseX, mouseY, targetMouseX, targetMouseY, mouseActive,
                    \* (skyMouseX .. skyMouseActive in SkyAndSea)
    seaMouseX, seaMouseY, seaMouseActive,
    horizonY,       \* config.horizonY of SkyAndSea (0 in the other scenes)
    particles,      \* the particle array (skyParticles in SkyAndSea)
    grid,           \* SpatialHash.grid : key string -> indices
    connections,    \* connections of the latest frame
    particleData,   \* per particle [x, y, alpha] written for the rasterizer
    lineVertexCount,\* vertices written to lineData in the latest frame
    trailVertexCount,\* GravitationalOrbits: vertices written to trailData
    attractors,     \* GravitationalOrbits: the attractor array
    pulses,         \* GravitationalOrbits: the pulses of the clicks
    perm,           \* FlowField: SimplexNoise.perm
    startTime,      \* startTime of the animation closure
    inserted,       \* SpatialHash on its own: the insert calls since the last clear
    rip,            \* sea ripples: MAX_R slots [x, y, start, life]
    rCount,         \* number of ripple slots in use
    nextSlot,       \* SkyAndSea: the slot the next ripple is written to
    uRCnt,          \* the uRCnt uniform as last uploaded by a frame
    pitch,          \* ParticleSea: pitch of screenToWorldTile (milliradians)
    uPitch,         \* the uPitch uniform of the sea program (milliradians)
    dragging, lastX, lastY,     \* ParticleSea: look-drag state (pixels)
    scrollX, scrollY,           \* ParticleSea: tile-space scroll
    spacing, seaCount,          \* ParticleSea: grid spacing (pixels), grid points drawn
    rippleCalls,    \* addRipple calls since setup
    looks,          \* look drags started since setup
    noises,         \* SimplexNoise on its own: the instances constructed
    samples,        \* SimplexNoise on its own: the noise3D calls made, in order
    glContext,      \* canvas.getContext("webgl") returned a context
    rafId,          \* the id the latest requestAnimationFrame returned (0: none)
    scheduled,      \* ids of the frame callbacks requested and neither run nor canceled
    listeners,      \* registered event listeners, as "target.type"
    glObjects,      \* buffers and programs created and not deleted
    failures,       \* failure messages emitted (console.error / diag text)
    cleanup         \* the effect's cleanup function: "none", "armed", "done"

vars == <<scene, isMobile, now, lastTime, dt, frames, mouseX, mouseY,
          targetMouseX, targetMouseY, mouseActive, seaMouseX, seaMouseY,
          seaMouseActive, horizonY, particles, grid,
          connections, particleData, lineVertexCount, trailVertexCount, attractors,
          pulses, perm, startTime, inserted,
          rip, rCount, nextSlot, uRCnt, pitch, uPitch, dragging, lastX, lastY,
          scrollX, scrollY, spacing, seaCount, rippleCalls, looks, noises, samples,
          glContext, rafId, scheduled, listeners, glObjects, failures, cleanup>>

seaVars == <<rip, rCount, nextSlot, uRCnt, pitch, uPitch, dragging, lastX, lastY,
             scrollX, scrollY, spacing, seaCount, rippleCalls, looks, noises,
             samples>>
lifeVars == <<glContext, rafId, scheduled, listeners, glObjects, failures, cleanup>>

----------------------------------------------------------------------------
(* Fixed-point helpers *)

One == 100 * 100            \* position 1.0
AlphaOne == 10 * 100        \* alpha 1.0
VelPerPos == 10 * 10        \* velocity units per position unit

Abs(a) == IF a < 0 THEN -a ELSE a

\* quotient rounded toward zero (b > 0)
Quot(a, b) == IF a >= 0 THEN a \div b ELSE -((-a) \div b)

Min2(a, b) == IF a < b THEN a ELSE b
Max2(a, b) == IF a > b THEN a ELSE b
Min4(a, b, c, d) == Min2(Min2(a, b), Min2(c, d))

RECURSIVE SqrtBetween(_, _, _)
SqrtBetween(n, lo, hi) ==
    IF lo >= hi THEN lo
    ELSE LET mid == (lo + hi + 1) \div 2
         IN IF mid * mid <= n THEN SqrtBetween(n, mid, hi)
                              ELSE SqrtBetween(n, lo, mid - 1)

\* Math.sqrt, rounded down
Sqrt(n) == SqrtBetween(n, 0, 46340)

\* Math.floor(a / b) for b > 0
Floor(a, b) == a \div b

\* Math.sqrt(a * a + b * b); large arguments are scaled down before squaring
Hypot(a, b) ==
    IF Max2(Abs(a), Abs(b)) > 30000
    THEN 100 * Sqrt(Quot(a, 100) * Quot(a, 100) + Quot(b, 100) * Quot(b, 100))
    ELSE Sqrt(a * a + b * b)

----------------------------------------------------------------------------
(* Template-literal formatting of integers: `${cx},${cy}` *)

Digit(d) == CASE d = 0 -> "0" [] d = 1 -> "1" [] d = 2 -> "2" [] d = 3 -> "3"
              [] d = 4 -> "4" [] d = 5 -> "5" [] d = 6 -> "6" [] d = 7 -> "7"
              [] d = 8 -> "8" [] d = 9 -> "9"

RECURSIVE Digits(_)
Digits(n) == IF n < 10 THEN <<Digit(n)>>
             ELSE Append(Digits(n \div 10), Digit(n % 10))

NumToString(n) == IF n < 0 THEN <<"-">> \o Digits(-n) ELSE Digits(n)

PairKey(a, b) == NumToString(a) \o <<",">> \o NumToString(b)

----------------------------------------------------------------------------
(* class SpatialHash *)

\* the cell index taken with `| 0` (rounds toward zero)
getKey_Truncating(cellSize, x, y) ==
    LET cx == Quot(x, cellSize)
        cy == Quot(y, cellSize)
    IN PairKey(cx, cy)

getKey(cellSize, x, y) ==
    LET cx == Floor(x, cellSize)
        cy == Floor(y, cellSize)
    IN PairKey(cx, cy)

EmptyGrid == [k \in {} |-> <<>>]

\* clear() that leaves the map as it is
clear_Missing(g) == g

clear(g) == EmptyGrid

insert(g, cellSize, index, x, y) ==
    LET key == getKey(cellSize, x, y)
        g1 == IF key \in DOMAIN g THEN g ELSE (key :> <<>>) @@ g
    IN [g1 EXCEPT ![key] = Append(@, index)]

\* the nine cells in loop order: dx = -1..1 outer, dy = -1..1 inner
CellOffsets == << <<-1, -1>>, <<-1, 0>>, <<-1, 1>>,
                  << 0, -1>>, << 0, 0>>, << 0, 1>>,
                  << 1, -1>>, << 1, 0>>, << 1, 1>> >>

\* neighbors.push(...cell) for each offset in turn
RECURSIVE NeighborsFrom(_, _, _, _)
NeighborsFrom(g, cx, cy, offsets) ==
    IF offsets = <<>> THEN <<>>
    ELSE LET key == PairKey(cx + Head(offsets)[1], cy + Head(offsets)[2])
             cell == IF key \in DOMAIN g THEN g[key] ELSE <<>>
         IN cell \o NeighborsFrom(g, cx, cy, Tail(offsets))

\* the loops written `dx < 1`, `dy < 1`
getPotentialNeighbors_ShortLoops(g, cellSize, x, y) ==
    LET cx == Floor(x, cellSize)
        cy == Floor(y, cellSize)
    IN NeighborsFrom(g, cx, cy, << <<-1, -1>>, <<-1, 0>>, <<0, -1>>, <<0, 0>> >>)

getPotentialNeighbors(g, cellSize, x, y) ==
    LET cx == Floor(x, cellSize)
        cy == Floor(y, cellSize)
    IN NeighborsFrom(g, cx, cy, CellOffsets)

----------------------------------------------------------------------------
(* Shared helpers of the scenes *)

\* smoothstep(edge0, edge1, x), result in alpha units
smoothstep(edge0, edge1, x) ==
    LET t == Max2(0, Min2(AlphaOne, Quot((x - edge0) * AlphaOne, edge1 - edge0)))
    IN Quot(t * t * (3 * AlphaOne - 2 * t), AlphaOne * AlphaOne)

\* const dt = Math.min(now - lastTime, 0.05)
DT_CAP == 50

\* the frame delta used as it is measured
ClampDt_Unclamped(nowMs, lastMs) == nowMs - lastMs

ClampDt(nowMs, lastMs) == Min2(nowMs - lastMs, DT_CAP)

\* x += v * dt * 60
Advance(x, v, dtMs) == x + Quot(v * dtMs * 3, 50 * VelPerPos)

\* mouseX += (targetMouseX - mouseX) * k, k in percent
Smooth(pos, target, pct) == pos + Quot((target - pos) * pct, 100)

----------------------------------------------------------------------------
(* Bounds of the model and inputs explored *)

ParticleCount == 3          \* config.particleCount / skyParticleCount (40 .. 250 in the code)
MaxConnections == 2         \* config.maxConnections (800 .. 2000 in the code)
MaxFrames == 2              \* frame callbacks explored
TrailLength == 2            \* config.trailLength (12 or 24 in the code)
MaxPulses == 1              \* clicks whose pulse is still in the pulses array

\* time between two animation frames (ms): a 60 Hz frame, a stalled tab
FrameDeltas == {16, 2000}

\* time between the previous reading of the clock and a click's reading (ms):
\* the click is handled within the same millisecond
ClickDelays == {0}

\* pointer positions (normalized to the canvas) delivered by mousemove, click
MouseTargets == { <<5200, 7000>> }

\* and by touchmove, touchstart
TouchTargets == { <<9800, 2000>> }

\* the populations explored: ParticleCount consecutive templates of a scene's
\* list, starting at template k (cyclically)
PopulationStarts == {1, 5, 6}
GravityStarts == {5, 6}     \* (the gravity scene has the most handlers)
Population(T, k, n) == [i \in 1..n |-> T[((k + i - 2) % Len(T)) + 1]]

----------------------------------------------------------------------------
(* ConstellationNetwork: configuration and physics *)

connectionDistance ==
    IF scene = "sky" THEN (IF isMobile THEN 1500 ELSE 1200)
                     ELSE (IF isMobile THEN 1200 ELSE 1000)
mouseRadius == 1800
mouseStrength == 120
EDGE_MARGIN == 500
MIN_DISTANCE == 400
MOUSE_DEADZONE == 100       \* dist > 0.01
DAMPING == 992              \* 0.992, per mille
MOUSE_SMOOTHING == 8        \* 0.08, percent
maxLineVertices == MaxConnections * 2

\* the gravity of a pointer without a repulsion zone
MouseGravity_NoRepulsion(p, mx, my, active) ==
    IF ~active THEN <<0, 0>>
    ELSE LET dx == mx - p.x
             dy == my - p.y
             dist == Sqrt(dx * dx + dy * dy)
         IN IF dist < mouseRadius /\ dist > MOUSE_DEADZONE
            THEN LET pull == Quot((mouseRadius - dist) * dist * mouseStrength * 4,
                                  mouseRadius * mouseRadius)
                 IN << Quot(dx * pull, dist), Quot(dy * pull, dist) >>
            ELSE <<0, 0>>

\* the gravity of a pointer that is taken to be live always
MouseGravity_Ungated(p, mx, my, active) ==
    LET dx == mx - p.x
        dy == my - p.y
        dist == Sqrt(dx * dx + dy * dy)
    IN IF dist < mouseRadius /\ dist > MOUSE_DEADZONE
       THEN IF dist < MIN_DISTANCE
            THEN LET repelStrength ==
                         Quot((MIN_DISTANCE - dist) * mouseStrength * 8, MIN_DISTANCE)
                 IN << -Quot(dx * repelStrength, dist),
                       -Quot(dy * repelStrength, dist) >>
            ELSE LET pull == Quot((mouseRadius - dist) * dist * mouseStrength * 4,
                                  mouseRadius * mouseRadius)
                 IN << Quot(dx * pull, dist), Quot(dy * pull, dist) >>
       ELSE <<0, 0>>

\* Mouse gravity with repulsion zone: the acceleration <<ax, ay>>
MouseGravity(p, mx, my, active) ==
    IF ~active THEN <<0, 0>>
    ELSE LET dx == mx - p.x
             dy == my - p.y
             dist == Sqrt(dx * dx + dy * dy)
         IN IF dist < mouseRadius /\ dist > MOUSE_DEADZONE
            THEN IF dist < MIN_DISTANCE
                 THEN LET repelStrength ==
                              Quot((MIN_DISTANCE - dist) * mouseStrength * 8, MIN_DISTANCE)
                      IN << -Quot(dx * repelStrength, dist),
                            -Quot(dy * repelStrength, dist) >>
                 ELSE LET pull == Quot((mouseRadius - dist) * dist * mouseStrength * 4,
                                       mouseRadius * mouseRadius)
                      IN << Quot(dx * pull, dist), Quot(dy * pull, dist) >>
            ELSE <<0, 0>>

\* the wrap with its second test left out
WrapMargin_OneSided(x, margin) ==
    IF x < -margin THEN One + margin ELSE x

\* Wrap edges: if (x < -m) x = 1 + m; if (x > 1 + m) x = -m
WrapMargin(x, margin) ==
    LET x1 == IF x < -margin THEN One + margin ELSE x
    IN IF x1 > One + margin THEN -margin ELSE x1

\* the body of `for (const p of particles)`
ConstellationStep(p, mx, my, active, dtMs) ==
    LET a == MouseGravity(p, mx, my, active)
        vx1 == p.vx + a[1]
        vy1 == p.vy + a[2]
        \* drift back to base velocity
        vx2 == IF ~active THEN vx1 + Quot((p.baseVx - vx1) * 5, 1000) ELSE vx1
        vy2 == IF ~active THEN vy1 + Quot((p.baseVy - vy1) * 5, 1000) ELSE vy1
        \* return-to-home force, homeForce = 0.0003
        vx3 == vx2 + Quot((p.homeX - p.x) * 3 * VelPerPos, 10000)
        vy3 == vy2 + Quot((p.homeY - p.y) * 3 * VelPerPos, 10000)
        vx4 == Quot(vx3 * DAMPING, 1000)
        vy4 == Quot(vy3 * DAMPING, 1000)
        x1 == Advance(p.x, vx4, dtMs)
        y1 == Advance(p.y, vy4, dtMs)
    IN [p EXCEPT !.vx = vx4, !.vy = vy4,
                 !.x = WrapMargin(x1, EDGE_MARGIN),
                 !.y = WrapMargin(y1, EDGE_MARGIN)]

----------------------------------------------------------------------------
(* SkyAndSea: configuration and sky physics *)

SEA_START_Y == 3500
SKY_EDGE_MARGIN == 300
HORIZON_GAP == 200          \* config.horizonY - 0.02
skyMouseRadius == 2000
skyMouseStrength == 150

\* the y that separates the sky region from the sea region in the handlers:
\* config.horizonY (0.35), config.seaStartY (0.35) in the planet variant
RegionSplitY == IF horizonY = SEA_START_Y THEN horizonY ELSE SEA_START_Y

\* Mouse gravity for sky (no repulsion zone)
SkyMouseGravity(p, mx, my, active) ==
    IF ~active THEN <<0, 0>>
    ELSE LET dx == mx - p.x
             dy == my - p.y
             dist == Sqrt(dx * dx + dy * dy)
         IN IF dist < skyMouseRadius /\ dist > MOUSE_DEADZONE
            THEN LET pull == Quot((skyMouseRadius - dist) * dist * skyMouseStrength * 4,
                                  skyMouseRadius * skyMouseRadius)
                 IN << Quot(dx * pull, dist), Quot(dy * pull, dist) >>
            ELSE <<0, 0>>

\* bounce at top and horizon: <<y, vy>>
SkyBounce(y, vy, hz) ==
    LET top == IF y < -SKY_EDGE_MARGIN
               THEN <<-SKY_EDGE_MARGIN, Quot(vy * (-5), 10)>> ELSE <<y, vy>>
    IN IF top[1] > hz - HORIZON_GAP
       THEN <<hz - HORIZON_GAP, Quot(top[2] * (-5), 10)>> ELSE top

\* the body of `for (const p of skyParticles)`
SkyStep(p, mx, my, active, dtMs, hz) ==
    LET a == SkyMouseGravity(p, mx, my, active)
        vx1 == p.vx + a[1]
        vy1 == p.vy + a[2]
        vx2 == IF ~active THEN vx1 + Quot((p.baseVx - vx1) * 5, 1000) ELSE vx1
        vy2 == IF ~active THEN vy1 + Quot((p.baseVy - vy1) * 5, 1000) ELSE vy1
        vx3 == Quot(vx2 * DAMPING, 1000)
        vy3 == Quot(vy2 * DAMPING, 1000)
        x1 == Advance(p.x, vx3, dtMs)
        y1 == Advance(p.y, vy3, dtMs)
        b == SkyBounce(y1, vy3, hz)
    IN [p EXCEPT !.vx = vx3, !.vy = b[2],
                 !.x = WrapMargin(x1, SKY_EDGE_MARGIN),
                 !.y = b[1]]

----------------------------------------------------------------------------
(* Connectivity graph: shared by ConstellationNetwork and SkyAndSea *)

\* Rebuild spatial hash: clear(), then insert(i, x, y) for i = 0 .. length-1
RECURSIVE InsertAll(_, _, _, _)
InsertAll(g, cellSize, ps, i) ==
    IF i >= Len(ps) THEN g
    ELSE InsertAll(insert(g, cellSize, i, ps[i + 1].x, ps[i + 1].y), cellSize, ps, i + 1)

RebuildHash(g, cellSize, ps) == InsertAll(clear(g), cellSize, ps, 0)

\* a connection that is not faded at the edges
ConnectionFade_None(p) == AlphaOne

\* pAlpha / qAlpha of a connection
ConnectionFade(p) ==
    IF scene = "sky"
    THEN smoothstep(0, SKY_EDGE_MARGIN, Min4(p.x, One - p.x, p.y, horizonY - p.y))
    ELSE smoothstep(0, EDGE_MARGIN, Min4(p.x, One - p.x, p.y, One - p.y))

\* alpha written to the particle buffer
ParticleFade(p) ==
    IF scene = "sky"
    THEN smoothstep(0, SKY_EDGE_MARGIN, Min4(p.x, One - p.x, p.y, horizonY - p.y))
    ELSE smoothstep(0, EDGE_MARGIN, Min4(p.x, One - p.x, p.y, One - p.y))

\* alpha * Math.min(pAlpha, qAlpha), alpha = 1 - dist / connectionDistance
ConnectionAlpha(dist, cd, pAlpha, qAlpha) ==
    Quot(Quot((cd - dist) * AlphaOne, cd) * Min2(pAlpha, qAlpha), AlphaOne)

\* the test written `j < i`
SkipNeighbor_Strict(i, j) == j < i

\* if (j <= i) continue
SkipNeighbor(i, j) == j <= i

\* the squared distance compared with the threshold
Connected_NoSqrt(dist, cd) == dist * dist < cd

\* if (dist < config.connectionDistance)
Connected(dist, cd) == dist < cd

\* if (connections.length >= config.maxConnections) break
CapReached(conns, maxC) == Len(conns) >= maxC

\* the outer loop without its break
OuterCapReached_Missing(conns, maxC) == FALSE

\* the same test after the inner loop, which leaves the outer loop
OuterCapReached(conns, maxC) == Len(conns) >= maxC

\* the loop `for (const j of neighbors)`; st = [conns, seen]
RECURSIVE NeighborLoop(_, _, _, _, _, _)
NeighborLoop(ps, cd, maxC, i, nbrs, st) ==
    IF nbrs = <<>> THEN st
    ELSE LET j == Head(nbrs)
             key == PairKey(i, j)
         IN IF SkipNeighbor(i, j) THEN NeighborLoop(ps, cd, maxC, i, Tail(nbrs), st)
            ELSE IF key \in st.seen THEN NeighborLoop(ps, cd, maxC, i, Tail(nbrs), st)
            ELSE LET p == ps[i + 1]
                     q == ps[j + 1]
                     dx == q.x - p.x
                     dy == q.y - p.y
                     dist == Sqrt(dx * dx + dy * dy)
                     seen1 == st.seen \cup {key}
                 IN IF Connected(dist, cd)
                    THEN LET c == [i |-> i, j |-> j,
                                   alpha |-> ConnectionAlpha(dist, cd, ConnectionFade(p),
                                                             ConnectionFade(q))]
                             st1 == [conns |-> Append(st.conns, c), seen |-> seen1]
                         IN IF CapReached(st1.conns, maxC) THEN st1
                            ELSE NeighborLoop(ps, cd, maxC, i, Tail(nbrs), st1)
                    ELSE NeighborLoop(ps, cd, maxC, i, Tail(nbrs),
                                      [st EXCEPT !.seen = seen1])

\* the loop `for (let i = 0; i < particles.length; i++)`
RECURSIVE ParticleLoop(_, _, _, _, _, _)
ParticleLoop(ps, g, cd, maxC, i, st) ==
    IF i >= Len(ps) THEN st
    ELSE LET p == ps[i + 1]
             neighbors == getPotentialNeighbors(g, cd, p.x, p.y)
             st1 == NeighborLoop(ps, cd, maxC, i, neighbors, st)
         IN IF OuterCapReached(st1.conns, maxC) THEN st1
            ELSE ParticleLoop(ps, g, cd, maxC, i + 1, st1)

\* Find connections
FindConnections(ps, g, cd, maxC) ==
    ParticleLoop(ps, g, cd, maxC, 0, [conns |-> <<>>, seen |-> {}]).conns

\* Update particle buffer
ParticleBuffer(ps) ==
    [i \in 1..Len(ps) |-> [x |-> ps[i].x, y |-> ps[i].y, alpha |-> ParticleFade(ps[i])]]

\* Update line buffer: two vertices per connection
LineVertices(conns) == 2 * Len(conns)

----------------------------------------------------------------------------
(* SkyAndSea: screen -> tile coordinates for the sea *)

TILE_W == 1600
TILE_D == 1200
CAM_H == 80                 \* camH = 80 * DPR
Z_PUSH == -50
FOCAL == 14617              \* f = 1 / tan(fov * 0.5), fov = 1.2
SIN_PITCH == 1790           \* sin(0.18)
COS_PITCH == 9838           \* cos(0.18)

\* the environment of the handlers: rect.width / rect.height (per mille) and
\* Math.min(2, devicePixelRatio): a portrait phone, a landscape desktop
Aspect == IF isMobile THEN 562 ELSE 1778
DPR == IF isMobile THEN 2 ELSE 1

\* JavaScript % (sign of the dividend)
Rem(a, b) == a - b * Quot(a, b)

\* ((x % 1) + 1) % 1
Frac(x) == Rem(Rem(x, One) + One, One)

\* (variant: a ray that does not point down is intersected all the same)
GroundHit_Unguarded(dirX, y2, z2, tileW) ==
    LET h == CAM_H * DPR * 100
        down == IF y2 = 0 THEN 1 ELSE -y2
    IN <<Frac(Quot(Quot(dirX * h, down), tileW \div 100) + 5000),
         Frac(Quot((-Z_PUSH) * 100 + Quot(z2 * h, down), TILE_D \div 100))>>

\* the end of both picks, from `const origin` on: the fallback, the intersection
\* with the plane y = 0 (hitX, hitZ in 1/100) and the wrap into the tile
GroundHit(dirX, y2, z2, tileW) ==
    IF y2 >= 0 THEN <<5000, 5000>>
    ELSE LET h == CAM_H * DPR * 100
             hitX == Quot(dirX * h, -y2)
             hitZ == (-Z_PUSH) * 100 + Quot(z2 * h, -y2)
         IN <<Frac(Quot(hitX, tileW \div 100) + 5000),
              Frac(Quot(hitZ, TILE_D \div 100))>>

\* dir after the rotation around X: the ray <<x, y, 1>> turned by the angle with
\* sine s and cosine c
Rotated(x, y, s, c) ==
    <<x, Quot(c * y - s * One, One), Quot(s * y + c * One, One)>>

\* screenToSeaTile down to `dir = { x: dir.x, y: y2, z: z2 }`
SeaRay(screenX, screenY) ==
    LET seaY == Quot((screenY - RegionSplitY) * One, One - RegionSplitY)
        nx == -(screenX * 2 - One)
        ny == seaY * 2 - One
    IN Rotated(Quot(Quot(nx * Aspect, 1000) * One, FOCAL), Quot((-ny) * One, FOCAL),
               SIN_PITCH, COS_PITCH)

HitOf(dir, tileW) == GroundHit(dir[1], dir[2], dir[3], tileW)

screenToSeaTile(screenX, screenY) == HitOf(SeaRay(screenX, screenY), TILE_W)

----------------------------------------------------------------------------
(* GravitationalOrbits: configuration and physics *)

gravitationalConstant == 8  \* 0.000008
mouseGravityMultiplier == 6
gravityMouseRadius == 3000  \* config.mouseRadius 0.3
softening == 300
pulseStrength == 8000       \* 0.008
pulseDuration == 800        \* 0.8 s
RING_WIDTH == 800           \* ringWidth = 0.08
RING_SPEED == 3000          \* ringRadius = progress * 0.3
PULSE_DEADZONE == 10        \* dist > 0.001
TIME_SCALE == 4             \* config.timeScale 0.4, in tenths
GRAVITY_MARGIN == 1000      \* margin = 0.1
GRAVITY_SMOOTHING == 12     \* 0.12, percent
MOUSE_MASS == 3000          \* 3.0

\* the layout table of the attractors; mass = 1.5 + Math.random() * 1.5
AttractorPositions ==
    IF isMobile THEN << <<3000, 3500>>, <<7000, 5000>>, <<5000, 7500>> >>
                ELSE << <<2500, 3000>>, <<7500, 2500>>, <<6000, 6000>>,
                        <<2000, 7000>>, <<8500, 7500>> >>

AttractorMasses == <<1500, 2200, 2999, 1800, 2600>>

Attractors ==
    [i \in 1..Len(AttractorPositions) |->
        [x |-> AttractorPositions[i][1], y |-> AttractorPositions[i][2],
         mass |-> AttractorMasses[i]]]

\* calculateGravity(px, py, ax, ay, mass, G): mass in 1/1000, G in 1/1000000
calculateGravity(px, py, ax, ay, mass, G) ==
    LET dx == ax - px
        dy == ay - py
        distSq == dx * dx + dy * dy + softening * softening
        dist == Sqrt(distSq)
        force == Quot(G * mass * 100, Quot(distSq, 1000))
    IN << Quot(dx * force, dist), Quot(dy * force, dist) >>

\* Gravity from all attractors, summed over atts[k .. Len(atts)]
RECURSIVE AttractorGravity(_, _, _)
AttractorGravity(p, atts, k) ==
    IF k > Len(atts) THEN <<0, 0>>
    ELSE LET g == calculateGravity(p.x, p.y, atts[k].x, atts[k].y, atts[k].mass,
                                   gravitationalConstant)
             rest == AttractorGravity(p, atts, k + 1)
         IN <<g[1] + rest[1], g[2] + rest[2]>>

\* Mouse gravity (black hole effect): blends the attractors' pull a with the pointer's
BlackHole(p, a, mx, my, active) ==
    IF ~active THEN a
    ELSE LET dx == mx - p.x
             dy == my - p.y
             dist == Sqrt(dx * dx + dy * dy)
         IN IF dist < gravityMouseRadius
            THEN LET influence == Quot((gravityMouseRadius - dist) * 1000,
                                       gravityMouseRadius)
                     g == calculateGravity(p.x, p.y, mx, my, MOUSE_MASS,
                              gravitationalConstant * mouseGravityMultiplier)
                     keep == 1000 - Quot(influence * 7, 10)
                 IN << Quot(a[1] * keep, 1000) + Quot(g[1] * influence, 1000),
                       Quot(a[2] * keep, 1000) + Quot(g[2] * influence, 1000) >>
            ELSE a

\* Pulse effect (radial push) of one pulse at time nowMs
PulsePush(p, pulse, nowMs) ==
    LET dx == p.x - pulse.x
        dy == p.y - pulse.y
        dist == Sqrt(dx * dx + dy * dy)
        age == nowMs - pulse.startTime
        ringRadius == Quot(age * RING_SPEED, pulseDuration)
        off == Abs(dist - ringRadius)
    IN IF off < RING_WIDTH
       THEN LET strength == Quot(Quot((pulseDuration - age) * (RING_WIDTH - off), 80)
                                     * pulseStrength,
                                 Quot(pulseDuration * RING_WIDTH, 80))
            IN IF dist > PULSE_DEADZONE
               THEN << Quot(dx * strength, dist), Quot(dy * strength, dist) >>
               ELSE <<0, 0>>
       ELSE <<0, 0>>

RECURSIVE PulseGravity(_, _, _, _)
PulseGravity(p, ps, nowMs, k) ==
    IF k > Len(ps) THEN <<0, 0>>
    ELSE LET g == PulsePush(p, ps[k], nowMs)
             rest == PulseGravity(p, ps, nowMs, k + 1)
         IN <<g[1] + rest[1], g[2] + rest[2]>>

\* (variant: no pulse is ever removed)
LivePulses_KeepAll(ps, nowMs) == ps

\* Clean up old pulses
RECURSIVE LivePulses(_, _)
LivePulses(ps, nowMs) ==
    IF ps = <<>> THEN <<>>
    ELSE IF nowMs - Head(ps).startTime > pulseDuration
         THEN LivePulses(Tail(ps), nowMs)
         ELSE <<Head(ps)>> \o LivePulses(Tail(ps), nowMs)

\* v += a * dt * 60 * timeScale
Accelerate(v, a, dtMs) == v + Quot(a * dtMs * 3 * TIME_SCALE, 500)

\* x += v * dt * 60 * timeScale
AdvanceScaled(x, v, dtMs) == x + Quot(v * dtMs * 3 * TIME_SCALE, 500 * VelPerPos)

\* v *= 0.9998
GentleDamping(v) == v - Quot(v * 2, 10000)

\* (variant: the trail is never shortened)
PushTrail_NoPop(trail, x, y, trailLength) == <<[x |-> x, y |-> y]>> \o trail

\* p.trail.unshift({x, y}); if (p.trail.length > trailLength) p.trail.pop()
PushTrail(trail, x, y, trailLength) ==
    LET t == <<[x |-> x, y |-> y]>> \o trail
    IN IF Len(t) > trailLength THEN SubSeq(t, 1, Len(t) - 1) ELSE t

\* (variant: a particle is bound anew to the next attractor on each frame)
GravityStep_Rebind(p, atts, mx, my, active, ps, nowMs, dtMs, trailLength) ==
    LET a0 == AttractorGravity(p, atts, 1)
        a1 == BlackHole(p, a0, mx, my, active)
        a2 == PulseGravity(p, ps, nowMs, 1)
        vx == GentleDamping(Accelerate(p.vx, a1[1] + a2[1], dtMs))
        vy == GentleDamping(Accelerate(p.vy, a1[2] + a2[2], dtMs))
        x == WrapMargin(AdvanceScaled(p.x, vx, dtMs), GRAVITY_MARGIN)
        y == WrapMargin(AdvanceScaled(p.y, vy, dtMs), GRAVITY_MARGIN)
    IN [p EXCEPT !.vx = vx, !.vy = vy, !.x = x, !.y = y,
                 !.trail = PushTrail(p.trail, x, y, trailLength),
                 !.attractorIndex = (@ + 1) % Len(atts)]

\* the body of `for (const p of particles)`
GravityStep(p, atts, mx, my, active, ps, nowMs, dtMs, trailLength) ==
    LET a0 == AttractorGravity(p, atts, 1)
        a1 == BlackHole(p, a0, mx, my, active)
        a2 == PulseGravity(p, ps, nowMs, 1)
        ax == a1[1] + a2[1]
        ay == a1[2] + a2[2]
        vx == GentleDamping(Accelerate(p.vx, ax, dtMs))
        vy == GentleDamping(Accelerate(p.vy, ay, dtMs))
        x == WrapMargin(AdvanceScaled(p.x, vx, dtMs), GRAVITY_MARGIN)
        y == WrapMargin(AdvanceScaled(p.y, vy, dtMs), GRAVITY_MARGIN)
    IN [p EXCEPT !.vx = vx, !.vy = vy, !.x = x, !.y = y,
                 !.trail = PushTrail(p.trail, x, y, trailLength)]

\* Build trail buffer: two vertices per trail segment
RECURSIVE TrailVertices(_, _)
TrailVertices(ps, k) ==
    IF k > Len(ps) THEN 0
    ELSE 2 * Max2(0, Len(ps[k].trail) - 1) + TrailVertices(ps, k + 1)

\* Build particle buffer: speed-based alpha and size
GravityBuffer(ps) ==
    [i \in 1..Len(ps) |->
        LET speed == Hypot(ps[i].vx, ps[i].vy)
            normalizedSpeed == Min2(1000, Quot(speed * 3, 10))
        IN [x |-> ps[i].x, y |-> ps[i].y,
            alpha |-> 600 + Quot(normalizedSpeed * 4, 10),
            size |-> 700 + Quot(normalizedSpeed * 5, 10)]]

----------------------------------------------------------------------------
(* SimplexNoise *)

grad3 ==
    << <<1, 1, 0>>, <<-1, 1, 0>>, <<1, -1, 0>>, <<-1, -1, 0>>,
       <<1, 0, 1>>, <<-1, 0, 1>>, <<1, 0, -1>>, <<-1, 0, -1>>,
       <<0, 1, 1>>, <<0, -1, 1>>, <<0, 1, -1>>, <<0, -1, -1>> >>

LCG_MODULUS == 2147483647
LCG_MULTIPLIER == 16807

\* s = (s * 16807) % 2147483647.  The product needs more than 32 bits (the code
\* computes it exactly in a double), so it is split as 16807 * (s mod q) - r * (s div q)
\* with q = 2147483647 div 16807 and r = 2147483647 mod 16807, which is the same residue.
NextSeed(s) ==
    LET q == LCG_MODULUS \div LCG_MULTIPLIER
        r == LCG_MODULUS % LCG_MULTIPLIER
        t == LCG_MULTIPLIER * (s % q) - r * (s \div q)
    IN IF t < 0 THEN t + LCG_MODULUS ELSE t

\* A seed is <<s, f>>: the number s + f / SeedUnit, f in 0 .. SeedUnit - 1 (f = 0
\* if s < 0).  The code keeps s in a double: below 2^46 a double resolves 1/128,
\* so these seeds and all their products with 16807 are exact.
SeedUnit == 2 ^ 7

\* s = (s * 16807) % 2147483647 on such a seed; % keeps the sign of s
StepSeed(s, f) ==
    IF s < 0 THEN << -NextSeed(-s), 0 >>
    ELSE LET carry == (f * LCG_MULTIPLIER) \div SeedUnit
             t == NextSeed(s)
         IN << IF t >= LCG_MODULUS - carry THEN t - (LCG_MODULUS - carry) ELSE t + carry,
               (f * LCG_MULTIPLIER) % SeedUnit >>

\* [p[i], p[j]] = [p[j], p[i]] on the Uint8Array p.  If j is no index of p (a
\* fraction, a negative number) p[j] reads undefined, which p[i] stores as 0, and
\* the write to p[j] does nothing.
SwapEntries(p, i, j, isIndex) ==
    IF isIndex
    THEN [p EXCEPT ![i + 1] = p[j + 1], ![j + 1] = p[i + 1]]
    ELSE [p EXCEPT ![i + 1] = 0]

\* Seed-based shuffle: for (let i = 255; i > 0; i--), p is 0-based in the code.
\* ShuffleSteps runs n iterations from index i and returns <<p, s, f>>
RECURSIVE ShuffleSteps(_, _, _, _, _)
ShuffleSteps(p, s, f, i, n) ==
    IF n = 0 \/ i <= 0 THEN <<p, s, f>>
    ELSE LET s1 == StepSeed(s, f)
             j == Rem(s1[1], i + 1)
         IN ShuffleSteps(SwapEntries(p, i, j, s1[2] = 0 /\ j >= 0),
                         s1[1], s1[2], i - 1, n - 1)

\* the whole loop, 16 iterations at a time (|s| stays below 2147483647)
RECURSIVE Shuffle(_, _, _, _)
Shuffle(p, s, f, i) ==
    IF i <= 0 THEN p
    ELSE LET r == ShuffleSteps(p, s, f, i, 16)
         IN IF r[2] > -LCG_MODULUS /\ r[2] < LCG_MODULUS
            THEN Shuffle(r[1], r[2], r[3], i - 16) ELSE r[1]

\* (variant: the shuffle goes on from wherever the noise3D calls made so far
\* have left a shared generator)
BuildPerm_SharedGenerator(seed) ==
    LET p == Shuffle([i \in 1..256 |-> i - 1], seed[1] + Len(samples), seed[2], 255)
    IN <<>> \o [i \in 1..512 |-> p[((i - 1) % 256) + 1]]

\* (variant: the table is not doubled)
BuildPerm_NotDoubled(seed) ==
    LET p == Shuffle([i \in 1..256 |-> i - 1], seed[1], seed[2], 255)
    IN <<>> \o [i \in 1..256 |-> p[i]]

\* this.perm[i] = p[i & 255], i = 0 .. 511, for the seed <<s, f>>
BuildPerm(seed) ==
    LET p == Shuffle([i \in 1..256 |-> i - 1], seed[1], seed[2], 255)
    IN <<>> \o [i \in 1..512 |-> p[((i - 1) % 256) + 1]]

\* this.gradP[i] = this.grad3[this.perm[i] % 12]
gradP(pm, i) == grad3[(pm[i + 1] % 12) + 1]

NOISE_SEED == 12345

\* const noise = new SimplexNoise(12345)
NoisePerm == BuildPerm(<<NOISE_SEED, 0>>)

\* x * x in position units
Sq(a) == Quot(a * a, One)

\* one corner's contribution: t = 0.6 - x*x - y*y - z*z; if (t >= 0) { t *= t; n = t * t * dot }
Corner(g, x, y, z) ==
    LET t == 6000 - Sq(x) - Sq(y) - Sq(z)
    IN IF t >= 0
       THEN LET t2 == Sq(t)
            IN Quot(Sq(t2) * (g[1] * x + g[2] * y + g[3] * z), One)
       ELSE 0

\* the simplex traversal order <<i1, j1, k1, i2, j2, k2>>
SimplexOrder(x0, y0, z0) ==
    IF x0 >= y0
    THEN IF y0 >= z0 THEN <<1, 0, 0, 1, 1, 0>>
         ELSE IF x0 >= z0 THEN <<1, 0, 0, 1, 0, 1>>
         ELSE <<0, 0, 1, 1, 0, 1>>
    ELSE IF y0 < z0 THEN <<0, 0, 1, 0, 1, 1>>
         ELSE IF x0 < z0 THEN <<0, 1, 0, 0, 1, 1>>
         ELSE <<0, 1, 0, 1, 1, 0>>

\* the four gradient indices ii + i1 + perm[jj + j1 + perm[kk + k1]] of noise3D
GradIndex(pm, ii, jj, kk, di, dj, dk) ==
    ii + di + pm[jj + dj + pm[kk + dk + 1] + 1]

\* noise3D, from the unskewed offsets on: the four corners' contributions
NoiseCorners(pm, ii, jj, kk, x0, y0, z0) ==
    LET o == SimplexOrder(x0, y0, z0)
        G3 == Quot(One, 6)
        G3x2 == Quot(2 * One, 6)
        G3x3 == Quot(3 * One, 6)
    IN 32 * (Corner(gradP(pm, GradIndex(pm, ii, jj, kk, 0, 0, 0)), x0, y0, z0)
             + Corner(gradP(pm, GradIndex(pm, ii, jj, kk, o[1], o[2], o[3])),
                      x0 - o[1] * One + G3, y0 - o[2] * One + G3, z0 - o[3] * One + G3)
             + Corner(gradP(pm, GradIndex(pm, ii, jj, kk, o[4], o[5], o[6])),
                      x0 - o[4] * One + G3x2, y0 - o[5] * One + G3x2,
                      z0 - o[6] * One + G3x2)
             + Corner(gradP(pm, GradIndex(pm, ii, jj, kk, 1, 1, 1)),
                      x0 - One + G3x3, y0 - One + G3x3, z0 - One + G3x3))

\* noise3D, from the cell <<i, j, k>> on: unskew, offsets, wrapped cell indices
NoiseOffsets(pm, x, y, z, i, j, k) ==
    LET t == Floor((i + j + k) * One, 6)
    IN NoiseCorners(pm, i % 256, j % 256, k % 256,
                    x - (i * One - t), y - (j * One - t), z - (k * One - t))

\* noise3D(x, y, z), arguments and result in position units (1.0 = 10000)
noise3D(pm, x, y, z) ==
    LET s == Floor(x + y + z, 3)
    IN NoiseOffsets(pm, x, y, z, Floor(x + s, One), Floor(y + s, One), Floor(z + s, One))

----------------------------------------------------------------------------
(* FlowField: configuration and physics *)

noiseScale == 3
noiseSpeed == 15            \* 0.15, percent
flowSpeed == 1500           \* 0.0015
vortexRadius == 2000
vortexStrength == 6000      \* 0.006
FLOW_SMOOTHING == 10        \* 0.1, percent

\* Math.sin of h half turns' worth of radians (h * pi / 10000), 0 <= h <= 10000,
\* by the rational approximation 16 w / (5 - 4 w), w = h (1 - h)
SinHalfTurn(h) ==
    LET w == Quot(h * (One - h), One)
    IN Quot(16 * w * One, 5 * One - 4 * w)

\* Math.sin(u * 2 pi), u in position units
SinTurn(u) ==
    LET h == 2 * (u % One)
    IN IF h < One THEN SinHalfTurn(h) ELSE -SinHalfTurn(h - One)

\* Math.cos(u * 2 pi)
CosTurn(u) == SinTurn(u + Quot(One, 4))

\* [Math.cos(angle), Math.sin(angle)], angle = noise * Math.PI * 2
FlowDirection(angle) == <<CosTurn(angle), SinTurn(angle)>>

\* getFlowVector(x, y, time): time in ms
getFlowVector(pm, x, y, time) ==
    FlowDirection(noise3D(pm, x * noiseScale, y * noiseScale, Quot(time * noiseSpeed, 10)))

\* getVortexVelocity(px, py, mx, my)
getVortexVelocity(px, py, mx, my) ==
    LET dx == px - mx
        dy == py - my
        dist == Sqrt(dx * dx + dy * dy)
    IN IF dist > vortexRadius \/ dist < MOUSE_DEADZONE THEN <<0, 0>>
       ELSE LET strength == Quot(Quot(vortexRadius * vortexRadius - dist * dist, 1000)
                                     * vortexStrength,
                                 Quot(vortexRadius * vortexRadius, 1000))
            IN << Quot((-dy) * strength, dist), Quot(dx * strength, dist) >>

\* vx = fx * config.flowSpeed * p.speed, vy likewise
BaseVelocity(p, f) ==
    << Quot(Quot(f[1] * flowSpeed, One) * p.speed, 1000),
       Quot(Quot(f[2] * flowSpeed, One) * p.speed, 1000) >>

\* if (mouseActive): blend the vortex into the flow velocity v
VortexBlend(p, mx, my, active, v) ==
    IF ~active THEN v
    ELSE LET vortex == getVortexVelocity(p.x, p.y, mx, my)
             dx == p.x - mx
             dy == p.y - my
             dist == Sqrt(dx * dx + dy * dy)
             vortexInfluence == Max2(0, Quot((vortexRadius - dist) * 1000, vortexRadius))
             keep == 1000 - Quot(vortexInfluence * 8, 10)
         IN << Quot(v[1] * keep, 1000) + vortex[1],
               Quot(v[2] * keep, 1000) + vortex[2] >>

\* the velocity <<vx, vy>> the frame integrates for particle p
FlowVelocity(pm, p, mx, my, active, elapsed) ==
    VortexBlend(p, mx, my, active, BaseVelocity(p, getFlowVector(pm, p.x, p.y, elapsed)))

\* Update position, wrap edges
FlowMove(p, v, dtMs) ==
    [p EXCEPT !.x = WrapMargin(Advance(p.x, v[1], dtMs), 0),
              !.y = WrapMargin(Advance(p.y, v[2], dtMs), 0)]

\* the body of `for (const p of particles)`
FlowStep(pm, p, mx, my, active, elapsed, dtMs) ==
    FlowMove(p, FlowVelocity(pm, p, mx, my, active, elapsed), dtMs)

\* Update buffer: the third component is p.speed
FlowBuffer(ps) ==
    [i \in 1..Len(ps) |-> [x |-> ps[i].x, y |-> ps[i].y, speed |-> ps[i].speed]]

----------------------------------------------------------------------------
(* Particle populations *)

P(x, y, vx, vy, hx, hy) ==
    [x |-> x, y |-> y, vx |-> vx, vy |-> vy, baseVx |-> 100, baseVy |-> -50,
     homeX |-> hx, homeY |-> hy]

\* Particle states the constellation scene reaches: created with home = position
\* in [0,1]^2 and |v| <= 0.00015, then moved by the frames (into the wrap margin)
\* and accelerated by a pointer that keeps them in its repulsion zone.
ConstellationTemplates ==
    << P(-300, 500, 100, 0, 200, 500),
       P(400, 900, -80, 60, 400, 900),
       P(900, 700, 50, 50, 900, 700),
       P(1100, 1300, 0, -150, 1100, 1300),
       P(9900, 5300, 30000, -200, 9000, 5300),
       P(10400, 5000, 60000, 0, 9000, 5000),
       P(5300, 6800, 120, 90, 5300, 6800),
       P(9590, 5300, 24300, 0, 3000, 5300) >>

S(x, y, vx, vy) ==
    [x |-> x, y |-> y, vx |-> vx, vy |-> vy, baseVx |-> 40, baseVy |-> 30]

\* Sky particle states: created in [0,1] x [0, horizonY] with |v| <= 0.00009,
\* then moved by the frames and accelerated by the pointer.
SkyTemplates(hz) ==
    << S(-200, 300, 60, -20),
       S(500, 800, -40, 30),
       S(1200, 400, 30, 30),
       S(5000, 2800, 20, 45),
       S(10200, 1500, 40000, 0),
       S(5100, hz - 300, 0, 30000),
       S(4000, -250, 0, -20000) >>

\* a GravitationalOrbits particle as created: on an orbit, no trail yet
G(x, y, vx, vy, ai) ==
    [x |-> x, y |-> y, vx |-> vx, vy |-> vy, mass |-> 800, trail |-> <<>>,
     attractorIndex |-> ai]

\* and after at least TrailLength frames: the trail holds the latest positions
GT(x, y, vx, vy, ai) ==
    [x |-> x, y |-> y, vx |-> vx, vy |-> vy, mass |-> 800,
     trail |-> [k \in 1..TrailLength |->
                  [x |-> AdvanceScaled(x, -vx, 16 * (k - 1)),
                   y |-> AdvanceScaled(y, -vy, 16 * (k - 1))]],
     attractorIndex |-> ai]

\* Gravity particle states: created in [0,1]^2 at orbital speed (0.01 .. 0.025),
\* then carried by their orbits into the wrap margin.
GravityTemplates ==
    << G(4000, 3000, 0, 14000, 0),
       G(7000, 4000, -12000, 5000, 1),
       GT(-990, 2000, -14000, 0, 2),
       GT(5000, 10990, 0, 12000, 0),
       GT(10980, 5000, 15000, 2000, 1),
       GT(5050, 5100, 3000, 3000, 2),
       G(5300, 6800, 9000, -9000, 0),
       GT(6100, 5900, -8000, 8000, 1) >>

F(x, y, speed) == [x |-> x, y |-> y, speed |-> speed]

\* Flow particles as created: x, y = Math.random(), speed = 0.5 + Math.random() * 0.5
FlowTemplates ==
    << F(9990, 5000, 1000),
       F(10, 300, 700),
       F(5000, 9995, 500),
       F(5000, 5, 800),
       F(5100, 5400, 900),
       F(2000, 7000, 600),
       F(9999, 9999, 1000),
       F(3, 9990, 950) >>

----------------------------------------------------------------------------
(* Effect lifecycle: what setup acquires and what the cleanup function releases *)

CanvasPointerListeners ==
    {"canvas.mousemove", "canvas.mouseleave", "canvas.mouseenter",
     "canvas.touchmove", "canvas.touchend"}

\* addEventListener calls of the effect, by scene
Registered(s) ==
    CASE s \in {"constellation", "flow"} -> {"window.resize"} \cup CanvasPointerListeners
      [] s = "gravity" -> {"window.resize", "canvas.click", "canvas.touchstart"}
                             \cup CanvasPointerListeners
      [] s = "sky" -> {"window.resize", "visualViewport.resize", "canvas.pointerdown"}
                         \cup CanvasPointerListeners
      [] s = "sea" -> {"window.resize", "canvas.pointerdown", "window.pointermove",
                       "window.pointerup", "window.pointercancel", "window.wheel",
                       "canvas.mousemove", "canvas.mouseenter", "canvas.mouseleave"}
      [] OTHER -> {}

\* removeEventListener calls of the cleanup function, by scene
Removed(s) ==
    CASE s \in {"constellation", "flow"} ->
             {"window.resize", "canvas.mousemove", "canvas.mouseleave",
              "canvas.touchmove", "canvas.touchend"}
      [] s = "gravity" ->
             {"window.resize", "canvas.mousemove", "canvas.mouseleave", "canvas.click",
              "canvas.touchstart", "canvas.touchmove", "canvas.touchend"}
      [] s = "sky" ->
             {"window.resize", "visualViewport.resize", "canvas.mousemove",
              "canvas.mouseleave", "canvas.pointerdown", "canvas.touchmove",
              "canvas.touchend"}
      [] s = "sea" -> {"window.resize"}
      [] OTHER -> {}

PlanetObjects ==
    {"planetBuffer", "ringLineBackBuffer", "ringLineFrontBuffer", "ringParticleBuffer",
     "planetProgram", "ringLineProgram", "ringParticleProgram"}

\* gl.createBuffer / createProgram results of the effect, by scene (hz: config.horizonY)
Created(s, hz) ==
    CASE s = "constellation" ->
             {"particleBuffer", "lineBuffer", "particleProgram", "lineProgram"}
      [] s = "gravity" ->
             {"particleBuffer", "trailBuffer", "particleProgram", "trailProgram"}
      [] s = "flow" -> {"buffer", "program"}
      [] s = "sky" ->
             {"skyParticleBuffer", "skyLineBuffer", "seaBuffer", "horizonBuffer",
              "skyParticleProgram", "skyLineProgram", "seaProgram", "horizonProgram"}
             \cup (IF hz = 3500 THEN {} ELSE PlanetObjects)
      [] s = "sea" -> {"buffer", "prog"}
      [] OTHER -> {}

\* gl.deleteBuffer / deleteProgram calls of the cleanup function
Deleted(s, hz) == IF s = "sea" THEN {} ELSE Created(s, hz)

\* the effect ran to its end: context obtained, listeners registered, first frame requested
Mounted ==
    /\ glContext = TRUE
    /\ rafId = 1
    /\ scheduled = {1}
    /\ listeners = Registered(scene)
    /\ glObjects = Created(scene, horizonY)
    /\ failures = 0
    /\ cleanup = "armed"

\* (variant: the failure is reported but the effect goes on)
ContextRefused_NoReturn ==
    /\ glContext = FALSE
    /\ rafId = 1
    /\ scheduled = {1}
    /\ listeners = Registered(scene)
    /\ glObjects = {}
    /\ failures = 1
    /\ cleanup = "armed"

\* if (!gl) { console.error("WebGL not supported"); return; }
ContextRefused ==
    /\ glContext = FALSE
    /\ rafId = 0
    /\ scheduled = {}
    /\ listeners = {}
    /\ glObjects = {}
    /\ failures = 1
    /\ cleanup = "none"

\* (variant: the id of the new request is not stored)
Reschedule_Untracked ==
    \E c \in scheduled :
        /\ rafId' = rafId
        /\ scheduled' = (scheduled \ {c}) \cup {rafId + 1}
        /\ UNCHANGED <<glContext, listeners, glObjects, failures, cleanup>>

\* requestAnimationFrame(frame) at the end of the running callback c
Reschedule ==
    \E c \in scheduled :
        /\ rafId' = rafId + 1
        /\ scheduled' = (scheduled \ {c}) \cup {rafId + 1}
        /\ UNCHANGED <<glContext, listeners, glObjects, failures, cleanup>>

----------------------------------------------------------------------------
(* Sea ripples *)

MAX_R == 6
RIPPLE_LIFE == 1200         \* rip[idx + 3] = 1.2

\* SkyAndSea: rip[i * 4 + 2] = -999, rip[i * 4 + 3] = 1.2; pitch is a constant (0.18)
SkySea ==
    /\ rip = [i \in 1..MAX_R |-> [x |-> 0, y |-> 0, start |-> -999000, life |-> RIPPLE_LIFE]]
    /\ rCount = 0 /\ nextSlot = 0 /\ uRCnt = 0
    /\ pitch = 180 /\ uPitch = -180 /\ dragging = FALSE /\ lastX = 0 /\ lastY = 0
    /\ scrollX = 0 /\ scrollY = 0 /\ spacing = 0 /\ seaCount = 0 /\ rippleCalls = 0
    /\ looks = 0
    /\ noises = <<>> /\ samples = <<>>

\* the scenes without a sea
NoSea ==
    /\ rip = <<>> /\ rCount = 0 /\ nextSlot = 0 /\ uRCnt = 0
    /\ pitch = 0 /\ uPitch = 0 /\ dragging = FALSE /\ lastX = 0 /\ lastY = 0
    /\ scrollX = 0 /\ scrollY = 0 /\ spacing = 0 /\ seaCount = 0 /\ rippleCalls = 0
    /\ looks = 0
    /\ noises = <<>> /\ samples = <<>>

----------------------------------------------------------------------------
(* Setup *)

InitConstellation ==
    /\ scene = "constellation"
    /\ isMobile \in BOOLEAN
    /\ now = 0 /\ lastTime = 0 /\ dt = 0 /\ frames = 0
    /\ mouseX = 5000 /\ mouseY = 5000
    /\ targetMouseX = 5000 /\ targetMouseY = 5000
    /\ mouseActive = FALSE
    /\ seaMouseX = 5000 /\ seaMouseY = 5000 /\ seaMouseActive = FALSE
    /\ horizonY = 0
    /\ \E k \in PopulationStarts :
          particles = Population(ConstellationTemplates, k, ParticleCount)
    /\ grid = EmptyGrid
    /\ connections = <<>>
    /\ particleData = <<>>
    /\ lineVertexCount = 0 /\ trailVertexCount = 0
    /\ attractors = <<>> /\ pulses = <<>> /\ perm = <<>> /\ startTime = 0
    /\ inserted = <<>>
    /\ NoSea
    /\ Mounted

InitSky ==
    /\ scene = "sky"
    /\ isMobile \in BOOLEAN
    /\ now = 0 /\ lastTime = 0 /\ dt = 0 /\ frames = 0
    /\ mouseX = 5000 /\ mouseY = 2500
    /\ targetMouseX = 5000 /\ targetMouseY = 2500
    /\ mouseActive = FALSE
    /\ seaMouseX = 5000 /\ seaMouseY = 5000 /\ seaMouseActive = FALSE
    /\ horizonY \in {3500, 6500}
    /\ \E k \in PopulationStarts :
          particles = Population(SkyTemplates(horizonY), k, ParticleCount)
    /\ grid = EmptyGrid
    /\ connections = <<>>
    /\ particleData = <<>>
    /\ lineVertexCount = 0 /\ trailVertexCount = 0
    /\ attractors = <<>> /\ pulses = <<>> /\ perm = <<>> /\ startTime = 0
    /\ inserted = <<>>
    /\ SkySea
    /\ Mounted

InitGravity ==
    /\ scene = "gravity"
    /\ isMobile \in BOOLEAN
    /\ now = 0 /\ lastTime = 0 /\ dt = 0 /\ frames = 0
    /\ mouseX = 5000 /\ mouseY = 5000
    /\ targetMouseX = 5000 /\ targetMouseY = 5000
    /\ mouseActive = FALSE
    /\ seaMouseX = 5000 /\ seaMouseY = 5000 /\ seaMouseActive = FALSE
    /\ horizonY = 0
    /\ \E k \in GravityStarts :
          particles = Population(GravityTemplates, k, ParticleCount)
    /\ grid = EmptyGrid
    /\ connections = <<>>
    /\ particleData = <<>>
    /\ lineVertexCount = 0 /\ trailVertexCount = 0
    /\ attractors = Attractors /\ pulses = <<>> /\ perm = <<>> /\ startTime = 0
    /\ inserted = <<>>
    /\ NoSea
    /\ Mounted

\* (isMobile selects nothing but config.particleCount in FlowField)
InitFlow ==
    /\ scene = "flow"
    /\ isMobile = FALSE
    /\ now = 0 /\ lastTime = 0 /\ dt = 0 /\ frames = 0
    /\ mouseX = 5000 /\ mouseY = 5000
    /\ targetMouseX = 5000 /\ targetMouseY = 5000
    /\ mouseActive = FALSE
    /\ seaMouseX = 5000 /\ seaMouseY = 5000 /\ seaMouseActive = FALSE
    /\ horizonY = 0
    /\ \E k \in PopulationStarts :
          particles = Population(FlowTemplates, k, ParticleCount)
    /\ grid = EmptyGrid
    /\ connections = <<>>
    /\ particleData = <<>>
    /\ lineVertexCount = 0 /\ trailVertexCount = 0
    /\ attractors = <<>> /\ pulses = <<>> /\ perm = NoisePerm
    /\ startTime = 0
    /\ inserted = <<>>
    /\ NoSea
    /\ Mounted

----------------------------------------------------------------------------
(* Pointer handlers *)

Scenes == {"constellation", "sky", "gravity", "flow"}

simulation == <<scene, isMobile, now, lastTime, dt, frames, mouseX, mouseY, horizonY,
                particles, grid, connections, particleData, lineVertexCount,
                trailVertexCount, attractors, pulses, perm, startTime, inserted,
                seaVars, lifeVars>>

\* ConstellationNetwork, GravitationalOrbits, FlowField: handleMouseMove / handleTouchMove
PointerMove(targets) ==
    /\ \E t \in targets :
          /\ targetMouseX' = t[1]
          /\ targetMouseY' = t[2]
    /\ mouseActive' = TRUE
    /\ UNCHANGED <<seaMouseX, seaMouseY, seaMouseActive>>

\* (variant: a move into one region leaves the other region's flag alone)
SkyPointerMove_KeepOther(targets) ==
    \E t \in targets :
        IF t[2] < RegionSplitY
        THEN /\ targetMouseX' = t[1]
             /\ targetMouseY' = t[2]
             /\ mouseActive' = TRUE
             /\ UNCHANGED <<seaMouseX, seaMouseY, seaMouseActive>>
        ELSE LET uv == screenToSeaTile(t[1], t[2])
             IN /\ seaMouseX' = uv[1]
                /\ seaMouseY' = uv[2]
                /\ seaMouseActive' = TRUE
                /\ UNCHANGED <<targetMouseX, targetMouseY, mouseActive>>

\* SkyAndSea: handleMouseMove / handleTouchMove
SkyPointerMove(targets) ==
    \E t \in targets :
        IF t[2] < RegionSplitY
        THEN /\ targetMouseX' = t[1]
             /\ targetMouseY' = t[2]
             /\ mouseActive' = TRUE
             /\ seaMouseActive' = FALSE
             /\ UNCHANGED <<seaMouseX, seaMouseY>>
        ELSE LET uv == screenToSeaTile(t[1], t[2])
             IN /\ seaMouseX' = uv[1]
                /\ seaMouseY' = uv[2]
                /\ seaMouseActive' = TRUE
                /\ mouseActive' = FALSE
                /\ UNCHANGED <<targetMouseX, targetMouseY>>

\* handleMouseLeave / handleTouchEnd
PointerLeave ==
    /\ mouseActive' = FALSE
    /\ seaMouseActive' = (IF scene = "sky" THEN FALSE ELSE seaMouseActive)
    /\ UNCHANGED <<targetMouseX, targetMouseY, seaMouseX, seaMouseY>>

handleMouseMove ==
    /\ scene \in Scenes
    /\ "canvas.mousemove" \in listeners
    /\ IF scene = "sky" THEN SkyPointerMove(MouseTargets) ELSE PointerMove(MouseTargets)
    /\ UNCHANGED simulation

handleTouchMove ==
    /\ scene \in Scenes
    /\ "canvas.touchmove" \in listeners
    /\ IF scene = "sky" THEN SkyPointerMove(TouchTargets) ELSE PointerMove(TouchTargets)
    /\ UNCHANGED simulation

handleMouseLeave ==
    /\ scene \in Scenes
    /\ "canvas.mouseleave" \in listeners
    /\ PointerLeave
    /\ UNCHANGED simulation

handleTouchEnd ==
    /\ scene \in Scenes
    /\ "canvas.touchend" \in listeners
    /\ PointerLeave
    /\ UNCHANGED simulation

\* canvas.addEventListener("mouseenter", () => (mouseActive = true));
\* in SkyAndSea the listener does nothing
handleMouseEnter ==
    /\ scene \in Scenes
    /\ "canvas.mouseenter" \in listeners
    /\ mouseActive' = (IF scene = "sky" THEN mouseActive ELSE TRUE)
    /\ UNCHANGED <<targetMouseX, targetMouseY, seaMouseX, seaMouseY, seaMouseActive>>
    /\ UNCHANGED simulation

\* (variant: the pulse is stamped on a clock that runs ahead of performance.now())
PushPulse_Ahead(x, y) ==
    \E d \in ClickDelays :
        /\ now' = now + d
        /\ pulses' = Append(pulses, [x |-> x, y |-> y, startTime |-> now + d + 100])

\* GravitationalOrbits: pulses.push({ x, y, startTime: performance.now() / 1000 })
PushPulse(x, y) ==
    \E d \in ClickDelays :
        /\ now' = now + d
        /\ pulses' = Append(pulses, [x |-> x, y |-> y, startTime |-> now + d])

handleClick ==
    /\ scene = "gravity"
    /\ "canvas.click" \in listeners
    /\ Len(pulses) < MaxPulses
    /\ \E t \in MouseTargets : PushPulse(t[1], t[2])
    /\ UNCHANGED <<scene, isMobile, lastTime, dt, frames, mouseX, mouseY, horizonY,
                   targetMouseX, targetMouseY, mouseActive, seaMouseX, seaMouseY,
                   seaMouseActive, particles, grid, connections, particleData,
                   lineVertexCount, trailVertexCount, attractors, perm, startTime,
                   inserted, seaVars, lifeVars>>

handleTouchStart ==
    /\ scene = "gravity"
    /\ "canvas.touchstart" \in listeners
    /\ Len(pulses) < MaxPulses
    /\ \E t \in TouchTargets :
          /\ targetMouseX' = t[1]
          /\ targetMouseY' = t[2]
          /\ PushPulse(t[1], t[2])
    /\ mouseActive' = TRUE
    /\ UNCHANGED <<scene, isMobile, lastTime, dt, frames, mouseX, mouseY, horizonY,
                   seaMouseX, seaMouseY, seaMouseActive, particles, grid, connections,
                   particleData, lineVertexCount, trailVertexCount, attractors, perm,
                   startTime, inserted, seaVars, lifeVars>>

----------------------------------------------------------------------------
(* Frames *)

\* the frame's particle pass, by scene
StepAll(ps, mx, my, active, dtMs) ==
    [i \in 1..Len(ps) |->
        IF scene = "sky" THEN SkyStep(ps[i], mx, my, active, dtMs, horizonY)
                         ELSE ConstellationStep(ps[i], mx, my, active, dtMs)]

\* function frame() of ConstellationNetwork and the sky half of SkyAndSea's
NetworkFrame ==
    /\ scene \in {"constellation", "sky"}
    /\ frames < MaxFrames
    /\ \E d \in FrameDeltas :
        LET nowMs == now + d
            dtMs == ClampDt(nowMs, lastTime)
            mx == Smooth(mouseX, targetMouseX, MOUSE_SMOOTHING)
            my == Smooth(mouseY, targetMouseY, MOUSE_SMOOTHING)
            ps == StepAll(particles, mx, my, mouseActive, dtMs)
            g == RebuildHash(grid, connectionDistance, ps)
            conns == FindConnections(ps, g, connectionDistance, MaxConnections)
        IN /\ now' = nowMs
           /\ lastTime' = nowMs
           /\ dt' = dtMs
           /\ mouseX' = mx
           /\ mouseY' = my
           /\ particles' = ps
           /\ grid' = g
           /\ connections' = conns
           /\ particleData' = ParticleBuffer(ps)
           /\ lineVertexCount' = LineVertices(conns)
    /\ frames' = frames + 1
    /\ uRCnt' = (IF scene = "sky" THEN rCount ELSE uRCnt)
    /\ Reschedule
    /\ UNCHANGED <<scene, isMobile, horizonY, targetMouseX, targetMouseY, mouseActive,
                   seaMouseX, seaMouseY, seaMouseActive, trailVertexCount, attractors,
                   pulses, perm, startTime, inserted, rip, rCount, nextSlot, pitch,
                   uPitch, dragging, lastX, lastY, scrollX, scrollY, spacing,
                   seaCount, rippleCalls, looks, noises, samples>>

\* function frame() of GravitationalOrbits
GravityFrame ==
    /\ scene = "gravity"
    /\ frames < MaxFrames
    /\ \E d \in FrameDeltas :
        LET nowMs == now + d
            dtMs == ClampDt(nowMs, lastTime)
            mx == Smooth(mouseX, targetMouseX, GRAVITY_SMOOTHING)
            my == Smooth(mouseY, targetMouseY, GRAVITY_SMOOTHING)
            live == LivePulses(pulses, nowMs)
            ps == [i \in 1..Len(particles) |->
                     GravityStep(particles[i], attractors, mx, my, mouseActive, live,
                                 nowMs, dtMs, TrailLength)]
        IN /\ now' = nowMs
           /\ lastTime' = nowMs
           /\ dt' = dtMs
           /\ mouseX' = mx
           /\ mouseY' = my
           /\ pulses' = live
           /\ particles' = ps
           /\ particleData' = GravityBuffer(ps)
           /\ trailVertexCount' = TrailVertices(ps, 1)
    /\ frames' = frames + 1
    /\ UNCHANGED <<scene, isMobile, horizonY, targetMouseX, targetMouseY, mouseActive,
                   seaMouseX, seaMouseY, seaMouseActive, grid, connections,
                   lineVertexCount, attractors, perm, startTime, inserted, seaVars>>
    /\ Reschedule

\* function frame() of FlowField
FlowFrame ==
    /\ scene = "flow"
    /\ frames < MaxFrames
    /\ \E d \in FrameDeltas :
        LET nowMs == now + d
            dtMs == ClampDt(nowMs, lastTime)
            elapsed == nowMs - startTime
            mx == Smooth(mouseX, targetMouseX, FLOW_SMOOTHING)
            my == Smooth(mouseY, targetMouseY, FLOW_SMOOTHING)
            ps == [i \in 1..Len(particles) |->
                     FlowStep(perm, particles[i], mx, my, mouseActive, elapsed, dtMs)]
        IN /\ now' = nowMs
           /\ lastTime' = nowMs
           /\ dt' = dtMs
           /\ mouseX' = mx
           /\ mouseY' = my
           /\ particles' = ps
           /\ particleData' = FlowBuffer(ps)
    /\ frames' = frames + 1
    /\ UNCHANGED <<scene, isMobile, horizonY, targetMouseX, targetMouseY, mouseActive,
                   seaMouseX, seaMouseY, seaMouseActive, grid, connections,
                   lineVertexCount, trailVertexCount, attractors, pulses, perm,
                   startTime, inserted, seaVars>>
    /\ Reschedule

----------------------------------------------------------------------------
(* Specifications *)

Init == InitConstellation \/ InitSky \/ InitGravity \/ InitFlow

Next ==
    \/ handleMouseMove
    \/ handleMouseLeave
    \/ handleMouseEnter
    \/ handleTouchMove
    \/ handleTouchEnd
    \/ handleClick
    \/ handleTouchStart
    \/ NetworkFrame
    \/ GravityFrame
    \/ FlowFrame

Spec == Init /\ [][Next]_vars

----------------------------------------------------------------------------
(* ParticleSea, and the sea half of SkyAndSea *)

MaxRipples == 7             \* addRipple calls explored
MaxLooks == 1               \* look drags explored

\* time between the previous reading of the clock and a pointerdown's reading (ms)
RippleDelays == {5}

\* time between two frames of ParticleSea (ms)
SeaFrameDeltas == {16}

\* canvas.getBoundingClientRect(): width and height in CSS pixels
CanvasW == IF isMobile THEN 450 ELSE 1600
CanvasH == IF isMobile THEN 800 ELSE 900

\* clientX, clientY of the pointer events (pixels): low on the canvas, near the
\* top, and a little further down
SeaPointers == { <<400, 700>>, <<300, 100>>, <<400, 650>> }

\* the pointerdown events: clientX, clientY, and whether the middle button or the
\* shift key makes it a look drag
PointerDowns == { <<400, 700, FALSE>>, <<400, 700, TRUE>>, <<300, 100, TRUE>> }

\* clientX, clientY of the pointermove events of a look drag
PointerMoves == { <<400, 650>>, <<300, 100>> }

\* clientX, clientY of the mousemove events over the sea
SeaMouseMoves == { <<400, 700>>, <<300, 100>> }

SEA_TILE_W == 900
SEA_PITCH == 150            \* pitch = 0.15
SEA_U_PITCH == -150         \* gl.uniform1f(loc.uPitch, -0.15)
PITCH_MIN == -300
PITCH_MAX == 400
PITCH_PER_PIXEL == -2       \* dy * -0.002
SCROLL_PER_PIXEL == 6       \* dx * 0.0006
SCROLL_STEP == 80           \* scrollY + 0.008
SPACING_MIN == 14
SPACING_MAX == 60
SPACING_STEP == 2
MIN_COLS == 25

\* Math.sin / Math.cos of an angle in milliradians, |p| <= 400
SinMr(p) == 10 * p - Quot(p * p * p, 600000)
CosMr(p) == One - Quot(p * p, 200) + Quot(Quot(p * p, 100) * Quot(p * p, 100), 240000)

\* ParticleSea: screenToWorldTile(clientX, clientY), with the current pitch p,
\* down to the rotated dir, and whole
WorldDir(nx, ny, p) ==
    Rotated(Quot(Quot(nx * Aspect, 1000) * One, FOCAL), Quot((-ny) * One, FOCAL),
            SinMr(p), CosMr(p))

WorldRay(clientX, clientY, p) ==
    WorldDir(-(Quot(clientX * One, CanvasW) * 2 - One),
             Quot(clientY * One, CanvasH) * 2 - One, p)

\* The sea vertex shaders.  Camera transform of the ground point at tile
\* coordinate (u, v), wave height 0: <<cx, y2, z2>> in 1/100, the rotation rot2
\* by the angle with sine s and cosine c
CameraSpace(u, v, tileW, s, c) ==
    LET cx == Quot((u - 5000) * tileW, 100)
        cy == -(CAM_H * DPR * 100)
        cz == Quot(v * TILE_D, 100)
    IN <<cx, Quot(c * cy - s * cz, One), Quot(s * cy + c * cz, One) + Z_PUSH * 100>>

\* Perspective projection: <<ndcX, ndcY>>
Perspective(cam) ==
    LET z == Max2(cam[3], 10)
    IN <<Quot(Quot(cam[1] * FOCAL, z) * 1000, Aspect), Quot(cam[2] * FOCAL, z)>>

\* ParticleSea: gl_Position = vec4(-ndcX, ndcY, ndcZ, 0.5), as normalized device
\* coordinates (x / w, y / w)
SeaDevice(ndc) == <<-(2 * ndc[1]), 2 * ndc[2]>>

\* SkyAndSea: gl_Position = vec4(-ndcX, scaledY, ndcZ, 1.0)
SkyDevice(ndc) ==
    LET seaStartClip == One - 2 * RegionSplitY
        seaHeight == seaStartClip + One
    IN <<-ndc[1], Quot(ndc[2] * seaHeight, 2 * One) + seaStartClip - Quot(seaHeight, 2)>>

screenToWorldTile(clientX, clientY, p) == HitOf(WorldRay(clientX, clientY, p), SEA_TILE_W)

\* a ripple slot: rip[idx + 0 .. idx + 3]
Ripple(nx, ny, t) == [x |-> nx, y |-> ny, start |-> t, life |-> RIPPLE_LIFE]

\* (variant: always writes slot 0)
RingWrite_FirstSlot(r, slot, new) == [r EXCEPT ![1] = new]

\* SkyAndSea addRipple: write slot nextSlot
RingWrite(r, slot, new) == [r EXCEPT ![slot + 1] = new]

\* ParticleSea addRipple: shift every slot up by one, write slot 0
ShiftWrite(r, new) == [i \in 1..MAX_R |-> IF i = 1 THEN new ELSE r[i - 1]]

\* rCount after addRipple
CountUp(n) == IF n < MAX_R THEN n + 1 ELSE n

\* addRipple(nx, ny) of SkyAndSea (start = now() - startTime) and of ParticleSea
\* (start = now())
addRipple(nx, ny) ==
    \E d \in RippleDelays :
        /\ now' = now + d
        /\ IF scene = "sea"
           THEN /\ rip' = ShiftWrite(rip, Ripple(nx, ny, now + d))
                /\ nextSlot' = nextSlot
           ELSE /\ rip' = RingWrite(rip, nextSlot, Ripple(nx, ny, now + d - startTime))
                /\ nextSlot' = (nextSlot + 1) % MAX_R
        /\ rCount' = CountUp(rCount)
        /\ rippleCalls' = rippleCalls + 1

\* rebuild(): count = cols * rows for the canvas size and the spacing sp
GridCount(sp) ==
    LET w == Max2(1, (CanvasW * DPR) \div sp)
        h == Max2(1, (CanvasH * DPR * 10) \div (sp * 7))
    IN Max2(MIN_COLS, w + 6) * (h + 8)

\* performance.now() when the effect runs (ms): the page has been open for a while
MountTimes == {3000}

InitSea ==
    /\ scene = "sea"
    /\ isMobile \in BOOLEAN
    /\ now \in MountTimes /\ lastTime = now /\ dt = 0 /\ frames = 0
    /\ mouseX = 5000 /\ mouseY = 5000
    /\ targetMouseX = 5000 /\ targetMouseY = 5000
    /\ mouseActive = FALSE
    /\ seaMouseX = 5000 /\ seaMouseY = 5000 /\ seaMouseActive = FALSE
    /\ horizonY = 0
    /\ particles = <<>>
    /\ grid = EmptyGrid
    /\ connections = <<>>
    /\ particleData = <<>>
    /\ lineVertexCount = 0 /\ trailVertexCount = 0
    /\ attractors = <<>> /\ pulses = <<>> /\ perm = <<>> /\ startTime = now
    /\ inserted = <<>>
    /\ rip = [i \in 1..MAX_R |-> [x |-> 0, y |-> 0, start |-> 0, life |-> 0]]
    /\ rCount = 0 /\ nextSlot = 0 /\ uRCnt = 0
    /\ pitch = SEA_PITCH /\ uPitch = SEA_U_PITCH
    /\ dragging = FALSE /\ lastX = 0 /\ lastY = 0
    /\ scrollX = 0 /\ scrollY = 0
    /\ spacing = (IF isMobile THEN 18 ELSE 24)
    /\ seaCount = GridCount(spacing)
    /\ rippleCalls = 0
    /\ looks = 0
    /\ noises = <<>> /\ samples = <<>>
    /\ Mounted

\* SkyAndSea with one population, for the sea half
InitSkySea ==
    /\ scene = "sky"
    /\ isMobile = FALSE
    /\ now \in MountTimes /\ lastTime = now /\ dt = 0 /\ frames = 0
    /\ mouseX = 5000 /\ mouseY = 2500
    /\ targetMouseX = 5000 /\ targetMouseY = 2500
    /\ mouseActive = FALSE
    /\ seaMouseX = 5000 /\ seaMouseY = 5000 /\ seaMouseActive = FALSE
    /\ horizonY \in {3500, 6500}
    /\ particles = Population(SkyTemplates(horizonY), 1, ParticleCount)
    /\ grid = EmptyGrid
    /\ connections = <<>>
    /\ particleData = <<>>
    /\ lineVertexCount = 0 /\ trailVertexCount = 0
    /\ attractors = <<>> /\ pulses = <<>> /\ perm = <<>> /\ startTime = now
    /\ inserted = <<>>
    /\ SkySea
    /\ Mounted

physics == <<scene, isMobile, lastTime, dt, frames, horizonY, particles, grid,
             connections, particleData, lineVertexCount, trailVertexCount, attractors,
             pulses, perm, startTime, inserted, targetMouseX, targetMouseY,
             seaMouseX, seaMouseY, seaMouseActive>>

\* ParticleSea: canvas "pointerdown" listener; SkyAndSea: handleClick, registered
\* for "pointerdown"
handlePointerDown ==
    /\ scene \in {"sea", "sky"}
    /\ "canvas.pointerdown" \in listeners
    /\ rippleCalls < MaxRipples
    /\ \E e \in PointerDowns :
        IF scene = "sea"
        THEN /\ dragging' = e[3]
             /\ lastX' = e[1]
             /\ lastY' = e[2]
             /\ IF e[3]
                THEN /\ looks < MaxLooks
                     /\ looks' = looks + 1
                     /\ UNCHANGED <<now, rip, rCount, nextSlot, rippleCalls>>
                ELSE /\ looks' = looks
                     /\ LET uv == screenToWorldTile(e[1], e[2], pitch)
                        IN addRipple(Frac(uv[1] - scrollX), Frac(uv[2] - scrollY))
        ELSE /\ UNCHANGED <<dragging, lastX, lastY, looks>>
             /\ LET sx == Quot(e[1] * One, CanvasW)
                    sy == Quot(e[2] * One, CanvasH)
                IN IF sy >= RegionSplitY
                   THEN LET uv == screenToSeaTile(sx, sy)
                        IN addRipple(uv[1], uv[2])
                   ELSE UNCHANGED <<now, rip, rCount, nextSlot, rippleCalls>>
    /\ UNCHANGED <<physics, mouseX, mouseY, mouseActive, uRCnt, pitch, uPitch,
                   scrollX, scrollY, spacing, seaCount, noises, samples, lifeVars>>

\* ParticleSea: window "pointermove" listener (look drag)
handlePointerMove ==
    /\ scene = "sea"
    /\ "window.pointermove" \in listeners
    /\ dragging
    /\ \E e \in PointerMoves :
        /\ lastX' = e[1]
        /\ lastY' = e[2]
        /\ pitch' = Max2(PITCH_MIN, Min2(PITCH_MAX, pitch + (e[2] - lastY) * PITCH_PER_PIXEL))
        /\ uPitch' = pitch'
        /\ scrollX' = scrollX + (e[1] - lastX) * SCROLL_PER_PIXEL
    /\ UNCHANGED <<physics, now, mouseX, mouseY, mouseActive, rip, rCount, nextSlot,
                   uRCnt, dragging, scrollY, spacing, seaCount, rippleCalls, looks,
                   noises, samples,
                   lifeVars>>

\* ParticleSea: window "pointerup" and "pointercancel" listeners
handlePointerUp ==
    /\ scene = "sea"
    /\ "window.pointerup" \in listeners \/ "window.pointercancel" \in listeners
    /\ dragging' = FALSE
    /\ UNCHANGED <<physics, now, mouseX, mouseY, mouseActive, rip, rCount, nextSlot,
                   uRCnt, pitch, uPitch, lastX, lastY, scrollX, scrollY, spacing,
                   seaCount, rippleCalls, looks, noises, samples, lifeVars>>

\* ParticleSea: window "wheel" listener
handleWheel ==
    /\ scene = "sea"
    /\ "window.wheel" \in listeners
    /\ \E down \in BOOLEAN :
        spacing' = Min2(SPACING_MAX, Max2(SPACING_MIN,
                          spacing + (IF down THEN SPACING_STEP ELSE -SPACING_STEP)))
    /\ seaCount' = GridCount(spacing')
    /\ UNCHANGED <<physics, now, mouseX, mouseY, mouseActive, rip, rCount, nextSlot,
                   uRCnt, pitch, uPitch, dragging, lastX, lastY, scrollX, scrollY,
                   rippleCalls, looks, noises, samples, lifeVars>>

\* ParticleSea: canvas "mousemove" listener
seaMouseMove ==
    /\ scene = "sea"
    /\ "canvas.mousemove" \in listeners
    /\ \E e \in SeaMouseMoves :
        LET uv == screenToWorldTile(e[1], e[2], pitch)
        IN /\ mouseX' = uv[1]
           /\ mouseY' = uv[2]
    /\ mouseActive' = TRUE
    /\ UNCHANGED <<physics, now, seaVars, lifeVars>>

\* ParticleSea: canvas "mouseenter" and "mouseleave" listeners
seaMouseEnter ==
    /\ scene = "sea"
    /\ "canvas.mouseenter" \in listeners
    /\ mouseActive' = TRUE
    /\ UNCHANGED <<physics, now, mouseX, mouseY, seaVars, lifeVars>>

seaMouseLeave ==
    /\ scene = "sea"
    /\ "canvas.mouseleave" \in listeners
    /\ mouseActive' = FALSE
    /\ UNCHANGED <<physics, now, mouseX, mouseY, seaVars, lifeVars>>

\* function frame() of ParticleSea
SeaFrame ==
    /\ scene = "sea"
    /\ frames < MaxFrames
    /\ \E d \in SeaFrameDeltas :
        LET t == now + d - startTime
        IN /\ now' = now + d
           /\ scrollY' = Rem(scrollY + SCROLL_STEP, One)
           /\ scrollX' = Rem(scrollX + Quot(2 * SinTurn(Quot(t * One, 62832)), One), One)
    /\ uRCnt' = rCount
    /\ frames' = frames + 1
    /\ Reschedule
    /\ UNCHANGED <<scene, isMobile, lastTime, dt, horizonY, particles, grid,
                   connections, particleData, lineVertexCount, trailVertexCount,
                   attractors, pulses, perm, startTime, inserted, targetMouseX,
                   targetMouseY, seaMouseX, seaMouseY, seaMouseActive, mouseX, mouseY,
                   mouseActive, rip, rCount, nextSlot, pitch, uPitch, dragging, lastX,
                   lastY, spacing, seaCount, rippleCalls, looks, noises, samples>>

NextSea ==
    \/ handlePointerDown
    \/ handlePointerMove
    \/ handlePointerUp
    \/ SeaFrame
    \/ NetworkFrame

SpecSea == (InitSea \/ InitSkySea) /\ [][NextSea]_vars

----------------------------------------------------------------------------
(* Mount, context failure and teardown *)

\* everything the scene computes with: all state but the effect's bookkeeping
sceneState == <<physics, now, mouseX, mouseY, mouseActive, seaVars>>

\* the function the effect returns, run by React at unmount
Teardown ==
    /\ cleanup = "armed"
    /\ cleanup' = "done"
    /\ scheduled' = scheduled \ {rafId}
    /\ listeners' = listeners \ Removed(scene)
    /\ glObjects' = glObjects \ Deleted(scene, horizonY)
    /\ UNCHANGED <<sceneState, glContext, rafId, failures>>

\* the effect when canvas.getContext("webgl") returns null: it returns before any
\* other statement
InitRefused ==
    /\ scene \in Scenes \cup {"sea"}
    /\ isMobile = FALSE
    /\ now = 0 /\ lastTime = 0 /\ dt = 0 /\ frames = 0
    /\ mouseX = 5000 /\ mouseY = 5000
    /\ targetMouseX = 5000 /\ targetMouseY = 5000
    /\ mouseActive = FALSE
    /\ seaMouseX = 5000 /\ seaMouseY = 5000 /\ seaMouseActive = FALSE
    /\ horizonY = 0
    /\ particles = <<>>
    /\ grid = EmptyGrid
    /\ connections = <<>>
    /\ particleData = <<>>
    /\ lineVertexCount = 0 /\ trailVertexCount = 0
    /\ attractors = <<>> /\ pulses = <<>> /\ perm = <<>> /\ startTime = 0
    /\ inserted = <<>>
    /\ NoSea
    /\ ContextRefused

\* one mounted instance of each component
InitMounted ==
    /\ isMobile = FALSE
    /\ \/ InitConstellation /\ particles = Population(ConstellationTemplates, 1, ParticleCount)
       \/ InitSky /\ particles = Population(SkyTemplates(horizonY), 1, ParticleCount)
       \/ InitGravity /\ particles = Population(GravityTemplates, 5, ParticleCount)
       \/ InitFlow /\ particles = Population(FlowTemplates, 1, ParticleCount)
       \/ InitSea

InitLife == InitMounted \/ InitRefused

NextLife ==
    \/ Teardown
    \/ NetworkFrame
    \/ GravityFrame
    \/ FlowFrame
    \/ SeaFrame
    \/ handleMouseMove
    \/ handleMouseLeave
    \/ handleMouseEnter
    \/ handleClick
    \/ seaMouseMove
    \/ seaMouseEnter
    \/ seaMouseLeave
    \/ handleWheel

SpecLife == InitLife /\ [][NextLife]_vars

----------------------------------------------------------------------------
(* SpatialHash on its own: any sequence of clear() and insert(id, x, y) *)

MaxInserts == 3             \* insert calls between two clear calls

HashIds == 0..2
HashPoints == { <<-300, 500>>, <<400, 900>>, <<1100, 1300>>, <<-1200, -100>>, <<2500, 900>> }
HashQueries == HashPoints \cup { <<-1300, 500>>, <<0, 0>>, <<2100, 2600>>, <<10500, 10500>> }

InitHash ==
    /\ scene = "hash"
    /\ isMobile \in BOOLEAN
    /\ now = 0 /\ lastTime = 0 /\ dt = 0 /\ frames = 0
    /\ mouseX = 5000 /\ mouseY = 5000
    /\ targetMouseX = 5000 /\ targetMouseY = 5000
    /\ mouseActive = FALSE
    /\ seaMouseX = 5000 /\ seaMouseY = 5000 /\ seaMouseActive = FALSE
    /\ horizonY = 0
    /\ particles = <<>>
    /\ grid = EmptyGrid
    /\ connections = <<>>
    /\ particleData = <<>>
    /\ lineVertexCount = 0 /\ trailVertexCount = 0
    /\ attractors = <<>> /\ pulses = <<>> /\ perm = <<>> /\ startTime = 0
    /\ inserted = <<>>
    /\ NoSea
    /\ Mounted

allButHash == <<scene, isMobile, now, lastTime, dt, frames, mouseX, mouseY,
                targetMouseX, targetMouseY, mouseActive, seaMouseX, seaMouseY,
                seaMouseActive, horizonY, particles, connections, particleData,
                lineVertexCount, trailVertexCount, attractors, pulses, perm, startTime,
                seaVars, lifeVars>>

HashClear ==
    /\ scene = "hash"
    /\ grid' = clear(grid)
    /\ inserted' = <<>>
    /\ UNCHANGED allButHash

HashInsert ==
    /\ scene = "hash"
    /\ Len(inserted) < MaxInserts
    /\ \E id \in HashIds, pt \in HashPoints :
          /\ grid' = insert(grid, connectionDistance, id, pt[1], pt[2])
          /\ inserted' = Append(inserted, [id |-> id, x |-> pt[1], y |-> pt[2]])
    /\ UNCHANGED allButHash

NextHash == HashClear \/ HashInsert

SpecHash == InitHash /\ [][NextHash]_vars

----------------------------------------------------------------------------
(* Properties *)

Range(f) == {f[k] : k \in DOMAIN f}

\* number of positions of sequence q that hold v
Count(q, v) == Cardinality({k \in DOMAIN q : q[k] = v})

Dist2(p, q) == (q.x - p.x) * (q.x - p.x) + (q.y - p.y) * (q.y - p.y)

CellOf(v) == Floor(v, connectionDistance)

Rebuilt == scene \in {"constellation", "sky"} /\ frames > 0

\* the pairs i < j (0-based) at a Euclidean distance below the threshold
TruePairs ==
    {pr \in (0..Len(particles) - 1) \X (0..Len(particles) - 1) :
        /\ pr[1] < pr[2]
        /\ Dist2(particles[pr[1] + 1], particles[pr[2] + 1])
              < connectionDistance * connectionDistance}

EmittedPairs == {<<connections[k].i, connections[k].j>> : k \in DOMAIN connections}

\* C1: after the per-frame rebuild, every other particle nearer than the threshold
\* to particle i is among getPotentialNeighbors(x_i, y_i)
C1_IndexComplete ==
    Rebuilt =>
        \A i, j \in 1..Len(particles) :
            (i # j /\ Dist2(particles[i], particles[j])
                         < connectionDistance * connectionDistance)
            => (j - 1) \in Range(getPotentialNeighbors(grid, connectionDistance,
                                                        particles[i].x, particles[i].y))

\* a true neighbour in another cell, seen from a particle in the negative margin
C1_Witness ==
    /\ Rebuilt
    /\ \E i, j \in 1..Len(particles) :
          /\ i # j
          /\ particles[i].x < 0
          /\ CellOf(particles[i].x) # CellOf(particles[j].x)
          /\ Dist2(particles[i], particles[j]) < connectionDistance * connectionDistance

\* C2: getPotentialNeighbors returns exactly the ids inserted since the last clear
\* whose cell is within Chebyshev distance 1 of the query's cell, each as often as
\* it was inserted there; nothing when nothing was inserted
C2_QueryExact ==
    scene = "hash" =>
        \A q \in HashQueries :
            LET got == getPotentialNeighbors(grid, connectionDistance, q[1], q[2])
                near == {k \in DOMAIN inserted :
                            /\ Abs(CellOf(inserted[k].x) - CellOf(q[1])) <= 1
                            /\ Abs(CellOf(inserted[k].y) - CellOf(q[2])) <= 1}
            IN /\ \A id \in HashIds :
                     Count(got, id) = Cardinality({k \in near : inserted[k].id = id})
               /\ Range(got) \subseteq HashIds
               /\ (inserted = <<>> => got = <<>>)

\* a query that returns some inserted ids and leaves others out
C2_Witness ==
    /\ scene = "hash"
    /\ Len(inserted) = MaxInserts
    /\ \E q \in HashQueries :
          LET got == getPotentialNeighbors(grid, connectionDistance, q[1], q[2])
          IN /\ Len(got) >= 2
             /\ Len(got) < Len(inserted)
             /\ CellOf(q[1]) < 0

\* C3: every emitted edge has i < j and no pair is emitted twice, in either order
C3_EdgesOrderedOnce ==
    \A k \in DOMAIN connections :
        /\ connections[k].i < connections[k].j
        /\ \A l \in DOMAIN connections :
              l # k => /\ <<connections[l].i, connections[l].j>>
                            # <<connections[k].i, connections[k].j>>
                       /\ <<connections[l].i, connections[l].j>>
                            # <<connections[k].j, connections[k].i>>

C3_Witness ==
    /\ Rebuilt
    /\ Len(connections) >= 2

\* C4: below the cap the emitted edges are exactly the pairs nearer than the
\* threshold; at the cap they are a subset of those pairs
C4_EdgesMatchBruteForce ==
    Rebuilt =>
        IF Len(connections) < MaxConnections
        THEN EmittedPairs = TruePairs
        ELSE EmittedPairs \subseteq TruePairs

\* below the cap, with an edge between particles of different cells
C4_Witness ==
    /\ Rebuilt
    /\ Len(connections) < MaxConnections
    /\ \E pr \in EmittedPairs :
          CellOf(particles[pr[1] + 1].x) # CellOf(particles[pr[2] + 1].x)
    /\ Cardinality(TruePairs) < (Len(particles) * (Len(particles) - 1)) \div 2

\* C5: at most maxConnections edges are emitted, and the vertices written stay
\* within the line buffer (maxConnections * 2 vertices)
C5_EdgeCap ==
    /\ Len(connections) <= MaxConnections
    /\ lineVertexCount = 2 * Len(connections)
    /\ lineVertexCount <= maxLineVertices

\* the cap cut the edge list short
C5_Witness ==
    /\ Rebuilt
    /\ Len(connections) = MaxConnections
    /\ Cardinality(TruePairs) > MaxConnections

\* C6: after the rebuild every particle index is in the grid exactly once, in the
\* cell of its current position, and the grid holds nothing else
C6_GridIsCurrentPopulation ==
    Rebuilt =>
        /\ \A i \in 1..Len(particles) :
              LET key == PairKey(CellOf(particles[i].x), CellOf(particles[i].y))
              IN /\ key \in DOMAIN grid
                 /\ Count(grid[key], i - 1) = 1
                 /\ \A other \in DOMAIN grid : other # key => Count(grid[other], i - 1) = 0
        /\ \A key \in DOMAIN grid :
              /\ grid[key] # <<>>
              /\ Range(grid[key]) \subseteq 0..(Len(particles) - 1)

\* a second rebuild, with a particle in a cell of the negative margin
C6_Witness ==
    /\ Rebuilt
    /\ frames >= 2
    /\ \E i \in 1..Len(particles) : CellOf(particles[i].x) < 0

\* C9: an edge's alpha is within [0, 1] and at most the particle-buffer alpha of
\* each of its endpoints
C9_EdgeAlphaBelowEndpoints ==
    Rebuilt =>
        \A k \in DOMAIN connections :
            /\ connections[k].alpha >= 0
            /\ connections[k].alpha <= AlphaOne
            /\ connections[k].alpha <= particleData[connections[k].i + 1].alpha
            /\ connections[k].alpha <= particleData[connections[k].j + 1].alpha

\* a visible edge with an endpoint that is partly faded
C9_Witness ==
    /\ Rebuilt
    /\ \E k \in DOMAIN connections :
          /\ connections[k].alpha > 0
          /\ particleData[connections[k].i + 1].alpha < AlphaOne

\* the wrap margin of the mounted scene
SceneMargin ==
    CASE scene = "constellation" -> EDGE_MARGIN
      [] scene = "gravity" -> GRAVITY_MARGIN
      [] scene = "sky" -> SKY_EDGE_MARGIN
      [] OTHER -> 0

\* C7: after the boundary step of every frame every particle lies in its scene's
\* domain extended by the margin: [-0.05, 1.05]^2 (constellation), [-0.1, 1.1]^2
\* (gravity), [0, 1]^2 (flow field), x in [-0.03, 1.03] and y in
\* [-0.03, horizonY - 0.02] (sky), whatever the frame delta and the velocity.
C7_PositionsInDomain ==
    (scene \in Scenes /\ frames > 0) =>
        \A i \in DOMAIN particles :
            /\ particles[i].x >= -SceneMargin
            /\ particles[i].x <= One + SceneMargin
            /\ particles[i].y >= -SceneMargin
            /\ particles[i].y <= (IF scene = "sky" THEN horizonY - HORIZON_GAP
                                                   ELSE One + SceneMargin)

\* a frame has wrapped a gravity particle from beyond x = 1.1 to x = -0.1
C7_Witness ==
    /\ scene = "gravity"
    /\ frames > 0
    /\ \E i \in DOMAIN particles :
          /\ particles[i].x = -GRAVITY_MARGIN
          /\ particles[i].vx > 0

\* this step is a frame that integrates particle i beyond the right edge plus margin
CrossesRight(i) ==
    /\ frames' = frames + 1
    /\ IF scene = "flow"
       THEN LET v == FlowVelocity(perm, particles[i], mouseX', mouseY', mouseActive,
                                  now' - startTime)
            IN Advance(particles[i].x, v[1], dt') > One
       ELSE Advance(particles[i].x, particles'[i].vx, dt') > One + EDGE_MARGIN

\* C8: wrap continuity.  A particle that crosses x = 1 (beyond the margin) in a step
\* reappears at the opposite side in that step (x = -margin, x = 0 in the flow
\* field), and its edge-fade alpha in the particle buffer is 0 in the frame before
\* the wrap and in the frame of the wrap.
C8_WrapContinuity ==
    [][\A i \in DOMAIN particles :
          (scene \in {"constellation", "flow"} /\ frames > 0 /\ CrossesRight(i)) =>
              /\ particles'[i].x = -SceneMargin
              /\ scene = "constellation" =>
                    /\ particleData[i].alpha = 0
                    /\ particleData'[i].alpha = 0]_vars

\* C10: whatever the frame timestamps (a stall included), the delta time a frame
\* integrates with is at most 0.05 s, so the integration of one frame moves no
\* coordinate of a particle by more than its velocity * 3.
C10_ClampedStep ==
    [][frames' = frames + 1 =>
          /\ dt' <= DT_CAP
          /\ \A i \in DOMAIN particles :
                LET v == IF scene = "flow"
                         THEN FlowVelocity(perm, particles[i], mouseX', mouseY',
                                           mouseActive, now' - startTime)
                         ELSE <<particles'[i].vx, particles'[i].vy>>
                    lo == IF scene = "flow" THEN 0 ELSE -SceneMargin
                    hi == One - lo
                    top == IF scene = "sky" THEN horizonY - HORIZON_GAP ELSE hi
                IN /\ particles'[i].x \in {lo, hi}
                      \/ Abs(particles'[i].x - particles[i].x) * VelPerPos <= 3 * Abs(v[1])
                   /\ particles'[i].y \in {lo, top}
                      \/ Abs(particles'[i].y - particles[i].y) * VelPerPos <= 3 * Abs(v[2])
      ]_vars

\* the first frame has run after a stall: the clock is beyond the cap, dt is the cap
C10_Witness ==
    /\ scene = "flow"
    /\ frames = 1
    /\ now > DT_CAP
    /\ dt = DT_CAP
    /\ particleData # <<>>

----------------------------------------------------------------------------
(* Ripples *)

\* the ripples the rasterizer reads: slots 0 .. rCount - 1
StoredRipples(r, n) == { r[i] : i \in 1..n }

\* the stored ripple with the earliest start
Oldest(stored) == CHOOSE o \in stored : \A q \in stored : o.start <= q.start

\* an addRipple call took the step
RippleAdded == rippleCalls' = rippleCalls + 1

\* the step kept the most recent ripples: the new one is younger than every stored
\* one, and it displaced the oldest one if and only if the store was full
KeepsMostRecent ==
    LET old == StoredRipples(rip, rCount)
        new == StoredRipples(rip', rCount')
    IN /\ rCount' = Min2(rippleCalls', MAX_R)
       /\ Cardinality(new) = rCount'
       /\ \E r \in new :
            /\ \A o \in old : o.start < r.start
            /\ new = (IF rCount < MAX_R THEN old ELSE old \ {Oldest(old)}) \cup {r}

\* the slots whose ripple the step changed
ChangedSlots == { i \in 1..MAX_R : rip'[i] # rip[i] }

----------------------------------------------------------------------------
(* Pulses and trails of GravitationalOrbits *)

\* the pulse is not older than pulseDuration at the clock reading t
Fresh(p, t) == t - p.startTime <= pulseDuration

\* C12: in the gravity scene a step that is no frame leaves the pulses alone or
\* appends one pulse stamped with the clock reading of the click or touch-start;
\* a frame leaves exactly the pulses not older than pulseDuration, in order.
C12_PulseAgeOut ==
    [][scene = "gravity" =>
          IF frames' = frames + 1
          THEN /\ pulses' = SelectSeq(pulses, LAMBDA p : Fresh(p, now'))
               /\ \A i \in DOMAIN pulses' : Fresh(pulses'[i], now')
          ELSE \/ pulses' = pulses
               \/ /\ Len(pulses') = Len(pulses) + 1
                  /\ SubSeq(pulses', 1, Len(pulses)) = pulses
                  /\ pulses'[Len(pulses')].startTime = now'
      ]_vars

\* a frame has run its cleanup with a pulse in the list that is 16 ms old: the
\* pulse is still there
C12_Witness ==
    /\ scene = "gravity"
    /\ frames >= 1
    /\ Len(pulses) = 1
    /\ lastTime > pulses[1].startTime

\* const maxTrailVertices = config.particleCount * config.trailLength * 2
maxTrailVertices == ParticleCount * TrailLength * 2

\* C13: a frame of the gravity scene puts the particle's position after the
\* boundary step at the head of its trail, keeps the earlier elements in order
\* behind it and drops the last one beyond trailLength, so a trail that started
\* empty has min(frames elapsed, trailLength) elements, newest first; the trail
\* vertex count of the frame is at most particleCount * trailLength * 2.
C13_TrailHistory ==
    [][(scene = "gravity" /\ frames' = frames + 1) =>
          /\ \A i \in DOMAIN particles :
                LET old == particles[i].trail
                    new == particles'[i].trail
                IN /\ Len(new) = Min2(Len(old) + 1, TrailLength)
                   /\ new[1] = [x |-> particles'[i].x, y |-> particles'[i].y]
                   /\ \A k \in 2..Len(new) : new[k] = old[k - 1]
                   /\ Len(old) < TrailLength => Len(old) = frames
          /\ trailVertexCount' <= maxTrailVertices
      ]_vars

\* the first frame has run on a particle whose trail was full: the trail still has
\* trailLength elements, and trail segments were written
C13_Witness ==
    /\ scene = "gravity"
    /\ frames = 1
    /\ \E i \in DOMAIN particles : Len(particles[i].trail) = TrailLength
    /\ \E i \in DOMAIN particles : Len(particles[i].trail) = 1
    /\ trailVertexCount > 0

----------------------------------------------------------------------------
(* The pick and the rasterizer *)

\* C14: in every state the pitch the pick rotates its ray by and the pitch uniform
\* of the rasterizer are related as at setup, where uPitch = -0.15 and
\* pitch = 0.15 (SkyAndSea: -0.18 and 0.18): uPitch = -pitch.  (Field of view,
\* camera height, push-back and tile size are the same constants on both sides
\* and never change.)
C14_PitchRelation ==
    scene \in {"sea", "sky"} => uPitch = -pitch

\* pointer positions over the whole canvas: clientX, clientY in pixels
PickPoints ==
    { <<x, 50 * k>> : x \in {0, 400, CanvasW}, k \in 0..(CanvasH \div 50) }

\* the rotated ray and the result of the scene's pick for a pointer position
PickRay(e) ==
    IF scene = "sea" THEN WorldRay(e[1], e[2], pitch)
    ELSE SeaRay(Quot(e[1] * One, CanvasW), Quot(e[2] * One, CanvasH))

Pick(e) ==
    IF scene = "sea" THEN screenToWorldTile(e[1], e[2], pitch)
    ELSE screenToSeaTile(Quot(e[1] * One, CanvasW), Quot(e[2] * One, CanvasH))

\* C15: for every pointer position and every pitch a look drag can reach, the
\* pick of ParticleSea and of SkyAndSea returns the centre (0.5, 0.5) when the
\* rotated ray has dir.y >= 0, and a pair with 0 <= u < 1 and 0 <= v < 1 otherwise.
C15_PickDefined ==
    \A e \in PickPoints :
        /\ Pick(e)[1] \in 0..(One - 1)
        /\ Pick(e)[2] \in 0..(One - 1)
        /\ PickRay(e)[2] >= 0 => Pick(e) = <<5000, 5000>>

\* a look drag has turned the camera of ParticleSea up to the clamp; some rays
\* go above the horizon, some hit the ground left of the tile (u wrapped up)
C15_Witness ==
    /\ scene = "sea"
    /\ pitch = PITCH_MAX
    /\ \E e \in PickPoints : PickRay(e)[2] >= 0
    /\ \E e \in PickPoints : PickRay(e)[2] < 0 /\ PickRay(e)[1] < 0 /\ Pick(e)[1] > 5000

\* ground points (tile coordinates) in front of the camera
GroundPoints == { <<5000, 5000>>, <<5000, 2500>>, <<4000, 5000>>, <<6000, 7500>> }

\* recovered within 0.01 of a tile, far above the rounding of 32-bit floats
ROUND_TRIP_TOLERANCE == One \div 100

\* where the rasterizer of the scene draws the ground point, in normalized device
\* coordinates
Drawn(g) ==
    IF scene = "sea"
    THEN SeaDevice(Perspective(CameraSpace(g[1], g[2], SEA_TILE_W,
                                           SinMr(uPitch), CosMr(uPitch))))
    ELSE SkyDevice(Perspective(CameraSpace(g[1], g[2], TILE_W, -SIN_PITCH, COS_PITCH)))

\* the pick of the scene at a point given in normalized device coordinates
PickAt(d) ==
    IF scene = "sea"
    THEN HitOf(WorldDir(-d[1], -d[2], pitch), SEA_TILE_W)
    ELSE screenToSeaTile(Quot(d[1] + One, 2), Quot(One - d[2], 2))

\* distance of two tile coordinates on the wrapped tile
TileDistance(a, b) == Min2(Abs(a - b), One - Abs(a - b))

\* C16: a ground point in front of the camera, drawn by the rasterizer at the
\* scene's pitch, field of view, camera height and push-back and then picked at
\* the place where it was drawn, comes back as the same tile coordinate within
\* the tolerance.
C16_RoundTrip ==
    scene \in {"sea", "sky"} =>
        \A g \in GroundPoints :
            /\ TileDistance(PickAt(Drawn(g))[1], g[1]) <= ROUND_TRIP_TOLERANCE
            /\ TileDistance(PickAt(Drawn(g))[2], g[2]) <= ROUND_TRIP_TOLERANCE

----------------------------------------------------------------------------
(* Lifecycle *)

\* C17: in every scene at most one frame callback is pending and rafId is its
\* id; once the cleanup function has run, whether before the first frame or
\* between two frames, no frame runs and none is pending.
C17_FrameCancelled ==
    [][ /\ Cardinality(scheduled') <= 1
        /\ scheduled' \subseteq {rafId'}
        /\ cleanup' = "done" => scheduled' = {}
        /\ cleanup = "done" => frames' = frames ]_vars

\* the cleanup function ran between the first and the second frame
C17_Witness ==
    /\ cleanup = "done"
    /\ frames = 1
    /\ rafId = 2
    /\ scheduled = {}

\* C18: the cleanup function leaves no listener registered and no buffer or
\* program undeleted, and after it no event changes the state of the scene or
\* what was given to the rendering context.
C18_TeardownReleases ==
    [][ /\ cleanup' = "done" => (listeners' = {} /\ glObjects' = {})
        /\ cleanup = "done" => UNCHANGED sceneState ]_vars

\* C19: when the rendering context is refused there is no particle, no listener,
\* no pending or executed frame, one failure signal and no cleanup function, in
\* the state the effect leaves and ever after.
C19_ContextFailure ==
    glContext = FALSE =>
        /\ particles = <<>> /\ particleData = <<>>
        /\ listeners = {}
        /\ scheduled = {} /\ rafId = 0 /\ frames = 0
        /\ glObjects = {}
        /\ failures = 1
        /\ cleanup = "none"

\* ParticleSea was refused its context
C19_Witness ==
    /\ scene = "sea"
    /\ glContext = FALSE
    /\ failures = 1

----------------------------------------------------------------------------
(* The pointer *)

\* pointer positions the smoothed pointer is compared against
PointerProbes == { <<5000, 5000>>, <<5200, 7000>>, <<9800, 2000>> }

\* the events that make the pointer live, and those that end it
PointerOn == handleMouseMove \/ handleMouseEnter \/ handleTouchMove
PointerOff == handleMouseLeave \/ handleTouchEnd

\* the frame moved every particle as it would with the pointer at m and not live,
\* and the pointer at m adds nothing to the particle's acceleration or velocity
PointerFree(m) ==
    \A i \in DOMAIN particles :
        LET p == particles[i]
        IN CASE scene = "constellation" ->
                  /\ MouseGravity(p, m[1], m[2], mouseActive) = <<0, 0>>
                  /\ particles'[i] = ConstellationStep(p, m[1], m[2], FALSE, dt')
             [] scene = "sky" ->
                  /\ SkyMouseGravity(p, m[1], m[2], mouseActive) = <<0, 0>>
                  /\ particles'[i] = SkyStep(p, m[1], m[2], FALSE, dt', horizonY)
             [] scene = "gravity" ->
                  /\ BlackHole(p, AttractorGravity(p, attractors, 1), m[1], m[2],
                               mouseActive) = AttractorGravity(p, attractors, 1)
                  /\ particles'[i] = GravityStep(p, attractors, m[1], m[2], FALSE,
                                                 pulses', now', dt', TrailLength)
             [] scene = "flow" ->
                  /\ FlowVelocity(perm, p, m[1], m[2], mouseActive, now' - startTime)
                        = BaseVelocity(p, getFlowVector(perm, p.x, p.y,
                                                        now' - startTime))
                  /\ particles'[i] = FlowMove(p, BaseVelocity(p,
                        getFlowVector(perm, p.x, p.y, now' - startTime)), dt')

\* a frame run while the pointer is not live is free of the pointer, wherever the
\* smoothed pointer is
UnforcedFrame ==
    (frames' = frames + 1 /\ ~mouseActive) =>
        /\ PointerFree(<<mouseX', mouseY'>>)
        /\ \A m \in PointerProbes : PointerFree(m)

----------------------------------------------------------------------------
(* The zones of the pointer's force *)

\* where the pointer rests: on a particle of the population, inside the minimum
\* distance of one, and further away (SkyAndSea: above the sky/sea split)
RestPointers(s) ==
    IF s = "sky" THEN { <<700, 800>>, <<500, 800>>, <<5000, 2500>> }
    ELSE IF s = "flow" THEN { <<5100, 5400>>, <<5100, 5450>>, <<5300, 6000>> }
    ELSE { <<5300, 6800>>, <<5300, 6600>>, <<5300, 6000>>, <<700, 800>> }

\* a scene in mid-run: the pointer has rested over the canvas, the smoothed
\* pointer has reached it
InitPointer ==
    /\ scene \in Scenes
    /\ isMobile = FALSE
    /\ now = 0 /\ lastTime = 0 /\ dt = 0 /\ frames = 0
    /\ \E m \in RestPointers(scene) :
          /\ mouseX = m[1] /\ mouseY = m[2]
          /\ targetMouseX = m[1] /\ targetMouseY = m[2]
    /\ mouseActive = TRUE
    /\ seaMouseX = 5000 /\ seaMouseY = 5000 /\ seaMouseActive = FALSE
    /\ horizonY = (IF scene = "sky" THEN 6500 ELSE 0)
    /\ \E k \in PopulationStarts :
          particles = CASE scene = "constellation" ->
                             Population(ConstellationTemplates, k, ParticleCount)
                        [] scene = "sky" ->
                             Population(SkyTemplates(horizonY), k, ParticleCount)
                        [] scene = "gravity" ->
                             Population(GravityTemplates, k, ParticleCount)
                        [] scene = "flow" ->
                             Population(FlowTemplates, k, ParticleCount)
    /\ grid = EmptyGrid
    /\ connections = <<>>
    /\ particleData = <<>>
    /\ lineVertexCount = 0 /\ trailVertexCount = 0
    /\ attractors = (IF scene = "gravity" THEN Attractors ELSE <<>>)
    /\ pulses = <<>> /\ startTime = 0
    /\ perm = (IF scene = "flow" THEN NoisePerm ELSE <<>>)
    /\ inserted = <<>>
    /\ IF scene = "sky" THEN SkySea ELSE NoSea
    /\ Mounted

NextPointer ==
    \/ NetworkFrame
    \/ GravityFrame
    \/ FlowFrame
    \/ handleClick
    \/ handleMouseMove
    \/ handleMouseLeave

SpecPointer == InitPointer /\ [][NextPointer]_vars

\* distances between particle and pointer at which the force is examined
ZoneDistances ==
    {0, 50, 100, 101, 200, 399, 400, 401, 900, 1799, 1800, 1801, 1999, 2000, 2001,
     2999, 3000, 3001}

\* pointers at those distances right of the particle, and at 5k on a 3-4-5 slope
ZoneProbes(p) ==
    {<<p.x + d, p.y>> : d \in ZoneDistances}
        \cup {<<p.x - 3 * k, p.y + 4 * k>> : k \in {10, 20, 21, 60, 80, 81, 300, 360, 400, 600}}

Sgn(a) == IF a > 0 THEN 1 ELSE IF a < 0 THEN -1 ELSE 0

\* the acceleration a points along <<dx, dy>>
Along(a, dx, dy) == Sgn(a[1]) \in {0, Sgn(dx)} /\ Sgn(a[2]) \in {0, Sgn(dy)}

\* the distance `dist` of the force code
PointerDistance(p, mx, my) == Sqrt((mx - p.x) * (mx - p.x) + (my - p.y) * (my - p.y))

\* what the live pointer at <<mx, my>> adds to the acceleration of p
PointerForce(p, mx, my) ==
    CASE scene = "constellation" -> MouseGravity(p, mx, my, TRUE)
      [] scene = "sky" -> SkyMouseGravity(p, mx, my, TRUE)
      [] scene = "gravity" -> BlackHole(p, <<0, 0>>, mx, my, TRUE)

\* the radius of the pointer's force
PointerRadius ==
    CASE scene = "constellation" -> mouseRadius
      [] scene = "sky" -> skyMouseRadius
      [] scene = "gravity" -> gravityMouseRadius

\* the force of the code, zone by zone
ZoneLaw(p, mx, my) ==
    LET a == PointerForce(p, mx, my)
        d == PointerDistance(p, mx, my)
        dx == mx - p.x
        dy == my - p.y
        attracted == /\ Along(a, dx, dy)
                     /\ 2 * d <= PointerRadius => a # <<0, 0>>
    IN CASE scene = "constellation" ->
              IF d <= MOUSE_DEADZONE \/ d >= mouseRadius THEN a = <<0, 0>>
              ELSE IF d < MIN_DISTANCE THEN Along(a, -dx, -dy) /\ a # <<0, 0>>
              ELSE attracted
         [] scene = "sky" ->
              IF d <= MOUSE_DEADZONE \/ d >= skyMouseRadius THEN a = <<0, 0>>
              ELSE attracted
         [] scene = "gravity" ->
              IF d = 0 \/ d >= gravityMouseRadius THEN a = <<0, 0>>
              ELSE attracted

\* the force as stated: repulsion inside the minimum distance, attraction up to
\* the radius, nothing from the radius on
ZoneClaim(p, mx, my) ==
    LET a == PointerForce(p, mx, my)
        d == PointerDistance(p, mx, my)
        dx == mx - p.x
        dy == my - p.y
    IN IF d >= PointerRadius THEN a = <<0, 0>>
       ELSE IF d >= MIN_DISTANCE THEN Along(a, dx, dy)
       ELSE d > 0 => (Along(a, -dx, -dy) /\ a # <<0, 0>>)

----------------------------------------------------------------------------
(* Divisions by a distance *)

\* (variant: the pulse push divides whatever the distance)
ForceDivisors_PulseUnguarded(p, mx, my, active, atts, ps, nowMs) ==
    LET dist == PointerDistance(p, mx, my)
        pointer ==
            CASE scene = "constellation" ->
                   IF active /\ dist < mouseRadius /\ dist > MOUSE_DEADZONE
                   THEN {dist} ELSE {}
              [] scene = "sky" ->
                   IF active /\ dist < skyMouseRadius /\ dist > MOUSE_DEADZONE
                   THEN {dist} ELSE {}
              [] scene = "gravity" ->
                   IF active /\ dist < gravityMouseRadius
                   THEN {dist * dist + softening * softening,
                         Sqrt(dist * dist + softening * softening)}
                   ELSE {}
              [] scene = "flow" ->
                   IF ~active \/ dist > vortexRadius \/ dist < MOUSE_DEADZONE
                   THEN {} ELSE {dist}
        attractor(a) ==
            LET distSq == (a.x - p.x) * (a.x - p.x) + (a.y - p.y) * (a.y - p.y)
                               + softening * softening
            IN {distSq, Sqrt(distSq)}
        pulse(q) ==
            LET d == PointerDistance(p, q.x, q.y)
                ringRadius == Quot((nowMs - q.startTime) * RING_SPEED, pulseDuration)
            IN IF Abs(d - ringRadius) < RING_WIDTH THEN {d} ELSE {}
    IN pointer \cup UNION {attractor(atts[k]) : k \in DOMAIN atts}
               \cup UNION {pulse(ps[k]) : k \in DOMAIN ps}

\* the distances, and the quantities derived from one, that the force code of a
\* frame divides by for particle p: `dist` of the pointer force (constellation,
\* sky) and of getVortexVelocity, distSq and dist of calculateGravity for the
\* pointer and for each attractor, `dist` of each pulse's push
ForceDivisors(p, mx, my, active, atts, ps, nowMs) ==
    LET dist == PointerDistance(p, mx, my)
        pointer ==
            CASE scene = "constellation" ->
                   IF active /\ dist < mouseRadius /\ dist > MOUSE_DEADZONE
                   THEN {dist} ELSE {}
              [] scene = "sky" ->
                   IF active /\ dist < skyMouseRadius /\ dist > MOUSE_DEADZONE
                   THEN {dist} ELSE {}
              [] scene = "gravity" ->
                   IF active /\ dist < gravityMouseRadius
                   THEN {dist * dist + softening * softening,
                         Sqrt(dist * dist + softening * softening)}
                   ELSE {}
              [] scene = "flow" ->
                   IF ~active \/ dist > vortexRadius \/ dist < MOUSE_DEADZONE
                   THEN {} ELSE {dist}
        attractor(a) ==
            LET distSq == (a.x - p.x) * (a.x - p.x) + (a.y - p.y) * (a.y - p.y)
                               + softening * softening
            IN {distSq, Sqrt(distSq)}
        pulse(q) ==
            LET d == PointerDistance(p, q.x, q.y)
                ringRadius == Quot((nowMs - q.startTime) * RING_SPEED, pulseDuration)
            IN IF Abs(d - ringRadius) < RING_WIDTH /\ d > PULSE_DEADZONE
               THEN {d} ELSE {}
    IN pointer \cup UNION {attractor(atts[k]) : k \in DOMAIN atts}
               \cup UNION {pulse(ps[k]) : k \in DOMAIN ps}

\* offsets of a pointer, an attractor or a pulse from a particle: coincidence, one
\* unit, the dead zones of the pulse (0.001) and of the pointer (0.01)
CoincidenceOffsets == {0, 1, 10, 11, 100, 101}

\* an attractor and a fresh pulse at <<x, y>>
AttractorAt(x, y) == <<[x |-> x, y |-> y, mass |-> 1000]>>
PulseAt(x, y, t) == <<[x |-> x, y |-> y, startTime |-> t]>>

\* C22: in every frame of every scene each division by a distance, or by a
\* quantity derived from one, has a strictly positive divisor: for the particles,
\* pointer, attractors and pulses of the frame, and with the pointer, an attractor
\* and a pulse placed on the particle and around it.  (Positions are finite and
\* every square root is of a sum of squares, so a zero divisor is the only source
\* of NaN or Infinity in the particle state.)
C22_DivisionGuards ==
    [][ frames' = frames + 1 =>
          \A i \in DOMAIN particles :
              /\ \A d \in ForceDivisors(particles[i], mouseX', mouseY', mouseActive,
                                        attractors, pulses', now') : d > 0
              /\ \A ox \in CoincidenceOffsets, oy \in CoincidenceOffsets :
                    LET x == particles[i].x + ox
                        y == particles[i].y + oy
                    IN \A d \in ForceDivisors(particles[i], x, y, TRUE,
                                              AttractorAt(x, y), PulseAt(x, y, now'),
                                              now') : d > 0
      ]_vars

\* a frame of the orbital scene has run with the live pointer resting where a
\* particle was, and with a pulse whose ring passes over a particle
C22_Witness ==
    /\ scene = "gravity"
    /\ frames >= 1
    /\ mouseActive
    /\ mouseX = 5300 /\ mouseY = 6800
    /\ \E i \in DOMAIN particles :
          PointerDistance(particles[i], mouseX, mouseY) < softening
    /\ pulses # <<>>
    /\ \E i \in DOMAIN particles :
          PointerDistance(particles[i], pulses[1].x, pulses[1].y) < RING_WIDTH

----------------------------------------------------------------------------
(* SimplexNoise on its own: any sequence of constructor and noise3D calls *)

MaxInstances == 2           \* instances constructed
MaxSamples == 2             \* noise3D calls made

\* seeds given to the constructor: the FlowField's, zero, a value of the default
\* Math.random() * 65536 (40000.5), a negative number
SeedInputs == { <<NOISE_SEED, 0>>, <<0, 0>>, <<40000, 64>>, <<-7, 0>> }

\* arguments of the noise3D calls: a cell in the positive octant, one with
\* negative indices, one beyond the table's period
SamplePoints == { <<1000, 500, 200>>, <<-2500, -2400, -2600>>, <<2600000, 300, -7000>> }

\* new SimplexNoise(seed): the perm and gradP fields (seed: the argument)
Instance(seed) ==
    LET pm == BuildPerm(seed)
    IN [seed |-> seed,
        perm |-> pm,
        gradP |-> <<>> \o [i \in DOMAIN pm |-> grad3[(pm[i] % 12) + 1]]]

\* the cell <<i, j, k>> of noise3D(x, y, z)
NoiseCell(x, y, z) ==
    LET s == Floor(x + y + z, 3)
    IN <<Floor(x + s, One), Floor(y + s, One), Floor(z + s, One)>>

\* the indices of one corner's lookup gradP[ii + di + perm[jj + dj + perm[kk + dk]]],
\* innermost first; the lookup ends at an index that has no entry
IndexChain(pm, ii, jj, kk, di, dj, dk) ==
    LET a == kk + dk
    IN IF a \notin 0..(Len(pm) - 1) THEN <<a>>
       ELSE LET b == jj + dj + pm[a + 1]
            IN IF b \notin 0..(Len(pm) - 1) THEN <<a, b>>
               ELSE <<a, b, ii + di + pm[b + 1]>>

\* the lookups of the four corners gi0 .. gi3 of noise3D(x, y, z)
IndexChains(pm, x, y, z) ==
    LET c == NoiseCell(x, y, z)
        t == Floor((c[1] + c[2] + c[3]) * One, 6)
        o == SimplexOrder(x - (c[1] * One - t), y - (c[2] * One - t),
                          z - (c[3] * One - t))
    IN { IndexChain(pm, c[1] % 256, c[2] % 256, c[3] % 256, d[1], d[2], d[3]) :
           d \in { <<0, 0, 0>>, <<o[1], o[2], o[3]>>, <<o[4], o[5], o[6]>>, <<1, 1, 1>> } }

\* every lookup of the call finds its entries
LookupsDefined(pm, x, y, z) ==
    \A ch \in IndexChains(pm, x, y, z) :
        Len(ch) = 3 /\ ch[3] \in 0..(Len(pm) - 1)

\* instance.noise3D(x, y, z) throws: it reads .x of an undefined gradient
Throws(inst, x, y, z) == ~LookupsDefined(inst.perm, x, y, z)

\* the value instance.noise3D(x, y, z) returns
Evaluate(inst, x, y, z) ==
    IF Throws(inst, x, y, z) THEN 0 ELSE noise3D(inst.perm, x, y, z)

InitNoise ==
    /\ scene = "noise"
    /\ isMobile = FALSE
    /\ now = 0 /\ lastTime = 0 /\ dt = 0 /\ frames = 0
    /\ mouseX = 5000 /\ mouseY = 5000
    /\ targetMouseX = 5000 /\ targetMouseY = 5000
    /\ mouseActive = FALSE
    /\ seaMouseX = 5000 /\ seaMouseY = 5000 /\ seaMouseActive = FALSE
    /\ horizonY = 0
    /\ particles = <<>>
    /\ grid = EmptyGrid
    /\ connections = <<>>
    /\ particleData = <<>>
    /\ lineVertexCount = 0 /\ trailVertexCount = 0
    /\ attractors = <<>> /\ pulses = <<>> /\ perm = <<>> /\ startTime = 0
    /\ inserted = <<>>
    /\ NoSea
    /\ Mounted

allButNoise == <<scene, isMobile, now, lastTime, dt, frames, mouseX, mouseY,
                 targetMouseX, targetMouseY, mouseActive, seaMouseX, seaMouseY,
                 seaMouseActive, horizonY, particles, grid, connections, particleData,
                 lineVertexCount, trailVertexCount, attractors, pulses, perm, startTime,
                 inserted, rip, rCount, nextSlot, uRCnt, pitch, uPitch, dragging,
                 lastX, lastY, scrollX, scrollY, spacing, seaCount, rippleCalls, looks,
                 lifeVars>>

\* new SimplexNoise(seed)
Construct ==
    /\ scene = "noise"
    /\ Len(noises) < MaxInstances
    /\ \E seed \in SeedInputs : noises' = Append(noises, Instance(seed))
    /\ UNCHANGED <<samples, allButNoise>>

\* noises[k].noise3D(x, y, z): no field of the instance is assigned
Sample ==
    /\ scene = "noise"
    /\ Len(samples) < MaxSamples
    /\ \E k \in DOMAIN noises, pt \in SamplePoints :
          samples' = Append(samples,
                            [instance |-> k, at |-> pt,
                             threw |-> Throws(noises[k], pt[1], pt[2], pt[3]),
                             value |-> Evaluate(noises[k], pt[1], pt[2], pt[3])])
    /\ UNCHANGED <<noises, allButNoise>>

NextNoise == Construct \/ Sample

SpecNoise == InitNoise /\ [][NextNoise]_vars

----------------------------------------------------------------------------
(* The noise is a function of the seed and the point *)

\* the seed of the instance a noise3D call was made on
SeedOf(c) == noises'[c.instance].seed

----------------------------------------------------------------------------
(* The tables of an instance *)

\* C24: in every instance, whatever its seed, perm[0 .. 255] holds every value of
\* 0 .. 255 exactly once, perm[256 .. 511] repeats perm[0 .. 255], and each of
\* the 512 gradP entries is one of the 12 directions of grad3.
C24_TablesPermuted ==
    \A k \in DOMAIN noises :
        LET t == noises[k]
        IN /\ Len(t.perm) = 512 /\ Len(t.gradP) = 512
           /\ { t.perm[i] : i \in 1..256 } = 0..255
           /\ \A i \in 1..256 : t.perm[i + 256] = t.perm[i]
           /\ \A i \in 1..512 : \E d \in DOMAIN grad3 : t.gradP[i] = grad3[d]

----------------------------------------------------------------------------
(* The table lookups of noise3D *)

\* points of all six orderings of the offsets in a cell, cells with negative
\* indices, with index 255 (where ii + 1 passes the first half of the table)
\* and beyond the period of the table
NoiseProbes ==
    SamplePoints \cup
    { <<1000, 200, 500>>, <<500, 200, 1000>>, <<200, 500, 1000>>, <<200, 1000, 500>>,
      <<500, 1000, 200>>, <<0, 0, 0>>, <<-1, -1, -1>>, <<-1000, 500, -200>>,
      <<1277500, 1277400, 1277600>>, <<-2559000, 600, 2551000>> }

\* C25: noise3D does not throw: for every instance and every point, in cells of
\* positive and negative indices and in each of the six orderings, every index
\* into perm and gradP lies in 0 .. 511 and has an entry; no call made has thrown.
C25_LookupsDefined ==
    /\ \A k \in DOMAIN noises : \A pt \in NoiseProbes :
          /\ LookupsDefined(noises[k].perm, pt[1], pt[2], pt[3])
          /\ \A ch \in IndexChains(noises[k].perm, pt[1], pt[2], pt[3]) :
                /\ \A n \in DOMAIN ch : ch[n] \in 0..511
                /\ ch[3] + 1 \in DOMAIN noises[k].gradP
    /\ \A a \in DOMAIN samples : ~samples[a].threw

\* a call in a cell of negative indices and a call beyond the table's period
\* have returned, on an instance whose lookups reach the second half of the table
C25_Witness ==
    /\ Len(samples) = 2
    /\ samples[1].at = <<-2500, -2400, -2600>> /\ ~samples[1].threw
    /\ samples[2].at = <<2600000, 300, -7000>> /\ ~samples[2].threw
    /\ \E k \in DOMAIN noises : \E pt \in NoiseProbes :
          \E ch \in IndexChains(noises[k].perm, pt[1], pt[2], pt[3]) :
              Len(ch) = 3 /\ ch[3] > 255

----------------------------------------------------------------------------
(* The particle pass, particle by particle *)

\* what the update loop of a frame reads besides the particles: the clock, the
\* smoothed pointer, the attractors and the pulses left by the cleanup
PassInputs == [nowMs |-> now', dtMs |-> dt', mx |-> mouseX', my |-> mouseY',
               active |-> mouseActive, atts |-> attractors, live |-> pulses',
               pm |-> perm, elapsed |-> now' - startTime, hz |-> horizonY]

\* (variant: a particle is also drawn towards the next one of the array)
UpdateInPlace_Flocking(ps, k, in) ==
    LET q == ps[(k % Len(ps)) + 1]
        p == [ps[k] EXCEPT !.x = @ + Quot(q.x - @, 10), !.y = @ + Quot(q.y - @, 10)]
    IN [ps EXCEPT ![k] =
          CASE scene = "sky" -> SkyStep(p, in.mx, in.my, in.active, in.dtMs, in.hz)
            [] scene = "gravity" ->
                 GravityStep(p, in.atts, in.mx, in.my, in.active, in.live, in.nowMs,
                             in.dtMs, TrailLength)
            [] scene = "flow" ->
                 FlowStep(in.pm, p, in.mx, in.my, in.active, in.elapsed, in.dtMs)
            [] OTHER -> ConstellationStep(p, in.mx, in.my, in.active, in.dtMs)]

\* one iteration of `for (const p of particles)`: the loop body on entry k of the
\* array ps, which holds the particles as the iterations before have left them
UpdateInPlace(ps, k, in) ==
    [ps EXCEPT ![k] =
        CASE scene = "sky" -> SkyStep(ps[k], in.mx, in.my, in.active, in.dtMs, in.hz)
          [] scene = "gravity" ->
               GravityStep(ps[k], in.atts, in.mx, in.my, in.active, in.live, in.nowMs,
                           in.dtMs, TrailLength)
          [] scene = "flow" ->
               FlowStep(in.pm, ps[k], in.mx, in.my, in.active, in.elapsed, in.dtMs)
          [] OTHER -> ConstellationStep(ps[k], in.mx, in.my, in.active, in.dtMs)]

\* the loop run over the entries in the order given, from entry order[n] on
RECURSIVE PassInOrder(_, _, _, _)
PassInOrder(ps, order, n, in) ==
    IF n > Len(order) THEN ps
    ELSE PassInOrder(UpdateInPlace(ps, order[n], in), order, n + 1, in)

\* the orders in which n entries can be visited
Orders(n) == { o \in [1..n -> 1..n] : \A a, b \in 1..n : o[a] = o[b] => a = b }

----------------------------------------------------------------------------
(* What is fixed at initialization *)

\* the fields of a particle that are assigned at initialization only
FixedFields(p) ==
    CASE scene = "constellation" ->
           [homeX |-> p.homeX, homeY |-> p.homeY, baseVx |-> p.baseVx, baseVy |-> p.baseVy]
      [] scene = "sky" -> [baseVx |-> p.baseVx, baseVy |-> p.baseVy]
      [] scene = "gravity" -> [mass |-> p.mass, attractorIndex |-> p.attractorIndex]
      [] OTHER -> [speed |-> p.speed]

\* C27: no frame and no pointer event (move, enter, leave, touch, click) changes
\* the attractors (their number, positions and masses), the number of particles,
\* or a particle's home position, base velocity, mass and attractor index; the
\* attractors stay the ones laid out at initialization and the population keeps
\* its configured size.
C27_ConfigurationFixed ==
    [][ (scene \in Scenes)
        => /\ attractors' = attractors
           /\ attractors' = (IF scene = "gravity" THEN Attractors ELSE <<>>)
           /\ Len(particles') = Len(particles)
           /\ Len(particles') = ParticleCount
           /\ \A i \in DOMAIN particles : FixedFields(particles'[i]) = FixedFields(particles[i])
           /\ \A i \in DOMAIN particles :
                 scene = "gravity"
                 => particles'[i].attractorIndex \in 0..(Len(attractors) - 1)
      ]_vars

\* two orbit frames, a pointer move and a click have happened: every particle has
\* moved and left a trail, a pulse is expanding
C27_Witness ==
    /\ scene = "gravity" /\ frames >= 2
    /\ mouseActive /\ Len(pulses) > 0
    /\ attractors = Attractors /\ Len(attractors) \in {3, 5}
    /\ Len(particles) = ParticleCount
    /\ \A i \in DOMAIN particles : Len(particles[i].trail) = TrailLength

----------------------------------------------------------------------------
(* SkyAndSea: the pointer over the sky and over the sea *)

InitRegions == InitSkySea

NextRegions ==
    \/ handleMouseMove
    \/ handleTouchMove
    \/ handleMouseLeave
    \/ handleTouchEnd
    \/ handlePointerDown
    \/ NetworkFrame

SpecRegions == InitRegions /\ [][NextRegions]_vars

\* the region a pointer at normalized height y is over
RegionOf(y) == IF y < RegionSplitY THEN "sky" ELSE "sea"

\* the flags after a move event at t: the region of t is live, the other is not,
\* and the region's pointer is at t
MovedTo(t) ==
    IF RegionOf(t[2]) = "sky"
    THEN /\ mouseActive' /\ ~seaMouseActive'
         /\ targetMouseX' = t[1] /\ targetMouseY' = t[2]
    ELSE /\ seaMouseActive' /\ ~mouseActive'
         /\ <<seaMouseX', seaMouseY'>> = screenToSeaTile(t[1], t[2])

\* C28: in SkyAndSea, skyMouseActive and seaMouseActive are never both true; a
\* mousemove or touchmove makes live the region its y selects against the
\* threshold and the other not; mouseleave and touchend leave neither live;
\* pointerdown and the frames change neither flag.
C28_RegionsExclusive ==
    [][ scene = "sky"
        => /\ ~(mouseActive' /\ seaMouseActive')
           /\ handleMouseMove => \E t \in MouseTargets : MovedTo(t)
           /\ handleTouchMove => \E t \in TouchTargets : MovedTo(t)
           /\ (handleMouseLeave \/ handleTouchEnd) => (~mouseActive' /\ ~seaMouseActive')
           /\ (handlePointerDown \/ NetworkFrame)
              => (mouseActive' = mouseActive /\ seaMouseActive' = seaMouseActive)
      ]_vars

\* the pointer is over the sea after having been over the sky (a touch is the
\* only event that puts the sky pointer there), and a press has made a ripple
C28_Witness ==
    /\ scene = "sky"
    /\ seaMouseActive /\ ~mouseActive
    /\ \E t \in TouchTargets : targetMouseX = t[1] /\ targetMouseY = t[2]
    /\ RegionOf(targetMouseY) = "sky"
    /\ rCount >= 1 /\ frames >= 1

----------------------------------------------------------------------------
(* The clock of the ripples *)

\* the value a frame at clock reading t hands to the shader as uTime (ms):
\* now() - start in ParticleSea, currentTime - startTime in SkyAndSea
RasterTime(t) == t - startTime

\* the slot addRipple has just written
WrittenSlot == IF scene = "sea" THEN 1 ELSE nextSlot + 1

\* C29: a ripple's start is a reading of the clock uTime is read from: the start
\* addRipple stores is the uTime of that instant, and in every frame uTime - start
\* is >= 0 for every stored ripple (so the ripple's age in the shader is the time
\* since its creation, and it expands from the first frame on).
C29_RippleClock ==
    [][ /\ (scene \in {"sea", "sky"} /\ rippleCalls' = rippleCalls + 1)
           => rip'[WrittenSlot].start = RasterTime(now')
        /\ (scene \in {"sea", "sky"} /\ frames' = frames + 1)
           => \A i \in 1..rCount : RasterTime(now') - rip[i].start >= 0
      ]_vars

----------------------------------------------------------------------------
(* The direction of the pulse force *)

\* where a particle is put around a pulse: at its origin, either side of the
\* dead zone, inside, on and outside the ring
RingOffsets == {-900, -300, -11, -10, 0, 10, 11, 60, 300, 859, 860}

\* ages at which the cleanup keeps a pulse (ms): from the click to pulseDuration
PulseAges == {0, 16, 400, 799, 800}

\* the particle p moved to the offset <<ox, oy>> from the pulse's origin
PlacedAt(p, pulse, ox, oy) == [p EXCEPT !.x = pulse.x + ox, !.y = pulse.y + oy]

\* the push of the pulse on p at the clock reading t has no component towards
\* the pulse's origin
Outward(p, pulse, t) ==
    LET f == PulsePush(p, pulse, t)
    IN f[1] * (p.x - pulse.x) >= 0 /\ f[2] * (p.y - pulse.y) >= 0

\* C30: in every orbit frame, each pulse the force pass reads (the pulses the
\* cleanup has left) has an age between 0 and pulseDuration at the frame's clock
\* reading, i.e. a progress in [0, 1]; its push on every particle, and on a
\* particle placed anywhere around it at any age the cleanup keeps, has no
\* component towards its origin; and
\* a pulse is never stamped later than the clock reading of the step.
C30_PulseOutward ==
    [][ (scene = "gravity")
        => /\ \A k \in DOMAIN pulses' : pulses'[k].startTime <= now'
           /\ (frames' = frames + 1)
              => \A k \in DOMAIN pulses' :
                    /\ now' - pulses'[k].startTime \in 0..pulseDuration
                    /\ \A i \in DOMAIN particles :
                          /\ Outward(particles[i], pulses'[k], now')
                          /\ \A ox, oy \in RingOffsets, age \in PulseAges :
                                Outward(PlacedAt(particles[i], pulses'[k], ox, oy),
                                        pulses'[k], pulses'[k].startTime + age)
      ]_vars

\* a frame has run with a pulse expanding, and the ring is over a particle, which
\* it pushes
C30_Witness ==
    /\ scene = "gravity" /\ frames >= 1
    /\ Len(pulses) = 1
    /\ lastTime > pulses[1].startTime
    /\ \E i \in DOMAIN particles : PulsePush(particles[i], pulses[1], now) # <<0, 0>>

============================================================================
